---- MODULE Spec2Model ----
(***************************************************************************)
(* Model of the disease catalogue backend (controllers/diseaseController): *)
(* the query builder buildCombinedQuery, and the handlers createEntry,     *)
(* deleteEntry, advancedSearch, getFilteredUniqueValues and exportEntries  *)
(* over the collection of disease documents.                               *)
(*                                                                         *)
(* Strings are sequences of character codes (ASCII), so that trimming,     *)
(* regex escaping, regex matching and ordering are computed character by   *)
(* character as the JavaScript code and the storage engine compute them.   *)
(* An absent query parameter (JavaScript undefined) is the value Undefined.*)
(* A query object handed to the storage is a function from its keys        *)
(* (field names, "$and", "$or") to values, as the JavaScript object is.    *)
(***************************************************************************)
EXTENDS Integers, Sequences, FiniteSets, TLC

VARIABLES store, req, res

vars == <<store, req, res>>

(***************************************************************************)
(* JavaScript values                                                       *)
(***************************************************************************)

\* JavaScript undefined for a string-valued parameter or field
Undefined == <<-1>>

\* truthiness of a string-or-undefined value: undefined and '' are falsy
Truthy(v) == v # Undefined /\ v # <<>>

\* the characters String.prototype.trim removes (within ASCII)
WhiteSpace == {9, 10, 11, 12, 13, 32}

RECURSIVE TrimStart(_)
TrimStart(s) ==
  IF s = <<>> THEN <<>>
  ELSE IF Head(s) \in WhiteSpace THEN TrimStart(Tail(s)) ELSE s

RECURSIVE TrimEnd(_)
TrimEnd(s) ==
  IF s = <<>> THEN <<>>
  ELSE IF s[Len(s)] \in WhiteSpace THEN TrimEnd(SubSeq(s, 1, Len(s) - 1)) ELSE s

\* String.prototype.trim
Trim(s) == TrimEnd(TrimStart(s))

\* MetaChars without the dot
MetaChars_NoDot == {42, 43, 63, 94, 36, 123, 125, 40, 41, 124, 91, 93, 92}

\* the character class [.*+?^${}()|[\]\\] of the escaping replace
MetaChars == {46, 42, 43, 63, 94, 36, 123, 125, 40, 41, 124, 91, 93, 92}

\* s.replace(/[.*+?^${}()|[\]\\]/g, '\\$&'): a backslash before each metacharacter
RECURSIVE EscapeRegex(_)
EscapeRegex(s) ==
  IF s = <<>> THEN <<>>
  ELSE (IF Head(s) \in MetaChars THEN <<92, Head(s)>> ELSE <<Head(s)>>)
       \o EscapeRegex(Tail(s))

\* new RegExp(source, 'i'): the regex object, kept as its source and flags
RegExp(source) == [source |-> source, flags |-> "i"]

\* the regex every handler builds from a user value: trim, escape, compile
TrimmedRegex(v) == RegExp(EscapeRegex(Trim(v)))

\* case folding of the 'i' flag (ASCII letters)
Lower(c) == IF c \in 65..90 THEN c + 32 ELSE c

\* the atoms of a regex source: \c is the literal c, an unescaped dot is any
\* character, every other character is itself
RECURSIVE RegexAtoms(_)
RegexAtoms(p) ==
  IF p = <<>> THEN <<>>
  ELSE IF Head(p) = 92 /\ Len(p) >= 2
       THEN <<[any |-> FALSE, ch |-> p[2]]>> \o RegexAtoms(SubSeq(p, 3, Len(p)))
  ELSE IF Head(p) = 46
       THEN <<[any |-> TRUE, ch |-> 46]>> \o RegexAtoms(Tail(p))
  ELSE <<[any |-> FALSE, ch |-> Head(p)]>> \o RegexAtoms(Tail(p))

\* regex.test(input): an unanchored, case-insensitive match somewhere in input
RegexTest(re, input) ==
  LET atoms == RegexAtoms(re.source)
  IN  \E i \in 0..(Len(input) - Len(atoms)) :
        \A j \in 1..Len(atoms) :
          atoms[j].any \/ Lower(atoms[j].ch) = Lower(input[i + j])

(***************************************************************************)
(* Storage queries (MongoDB filter semantics)                              *)
(***************************************************************************)

\* the JavaScript object {}
EmptyObject == <<>>

\* { field: regex } on a document: the field exists, is a string and matches
FieldMatches(re, doc, f) == doc[f] # Undefined /\ RegexTest(re, doc[f])

\* does the document satisfy the filter object: all keys must hold, $and is
\* every operand, $or is at least one operand
RECURSIVE Matches(_, _)
Matches(q, doc) ==
  \A k \in DOMAIN q :
    IF k = "$and" THEN \A i \in 1..Len(q[k]) : Matches(q[k][i], doc)
    ELSE IF k = "$or" THEN \E i \in 1..Len(q[k]) : Matches(q[k][i], doc)
    ELSE FieldMatches(q[k], doc, k)

(***************************************************************************)
(* buildCombinedQuery                                                      *)
(***************************************************************************)

SearchableFields == {"disease", "autoantibody", "autoantigen", "epitope", "uniprotId"}

\* one structured filter of buildCombinedQuery: if (v && v.trim()) push {f: regex}
FilterCondition(f, v) ==
  IF Truthy(v) /\ Truthy(Trim(v)) THEN << (f :> TrimmedRegex(v)) >> ELSE <<>>

\* SearchConditions searching every field whatever field is named
SearchConditions_AnyField(search, field) ==
  IF Truthy(search) /\ Truthy(Trim(search))
  THEN LET searchRegex == TrimmedRegex(search)
       IN  IF field = "all" \/ field \in SearchableFields
           THEN << ("$or" :> << ("disease" :> searchRegex),
                               ("autoantibody" :> searchRegex),
                               ("autoantigen" :> searchRegex),
                               ("epitope" :> searchRegex),
                               ("uniprotId" :> searchRegex) >>) >>
           ELSE <<>>
  ELSE <<>>

\* SearchConditions searching every field when no field is named
SearchConditions_DefaultAll(search, field) ==
  IF Truthy(search) /\ Truthy(Trim(search))
  THEN LET searchRegex == TrimmedRegex(search)
       IN  IF field = "all" \/ field = "undefined"
           THEN << ("$or" :> << ("disease" :> searchRegex),
                               ("autoantibody" :> searchRegex),
                               ("autoantigen" :> searchRegex),
                               ("epitope" :> searchRegex),
                               ("uniprotId" :> searchRegex) >>) >>
           ELSE IF field \in SearchableFields
                THEN << (field :> searchRegex) >>
                ELSE <<>>
  ELSE <<>>

\* the free-text part of buildCombinedQuery
SearchConditions(search, field) ==
  IF Truthy(search) /\ Truthy(Trim(search))
  THEN LET searchRegex == TrimmedRegex(search)
       IN  IF field = "all"
           THEN << ("$or" :> << ("disease" :> searchRegex),
                               ("autoantibody" :> searchRegex),
                               ("autoantigen" :> searchRegex),
                               ("epitope" :> searchRegex),
                               ("uniprotId" :> searchRegex) >>) >>
           ELSE IF field \in SearchableFields
                THEN << (field :> searchRegex) >>
                ELSE <<>>
  ELSE <<>>

\* CombineConditions keeping only the first condition
CombineConditions_FirstOnly(allConditions) ==
  IF Len(allConditions) = 0 THEN EmptyObject ELSE allConditions[1]

\* CombineConditions wrapping a single condition in a conjunction
CombineConditions_AlwaysAnd(allConditions) ==
  IF Len(allConditions) = 0 THEN EmptyObject ELSE ("$and" :> allConditions)

\* how buildCombinedQuery combines the conditions it has collected
CombineConditions(allConditions) ==
  IF Len(allConditions) = 0 THEN EmptyObject
  ELSE IF Len(allConditions) = 1 THEN allConditions[1]
  ELSE ("$and" :> allConditions)

buildCombinedQuery(searchParams) ==
  LET searchConditions == SearchConditions(searchParams.search, searchParams.field)
      filterConditions == FilterCondition("disease", searchParams.disease)
                          \o FilterCondition("autoantibody", searchParams.autoantibody)
                          \o FilterCondition("autoantigen", searchParams.autoantigen)
                          \o FilterCondition("epitope", searchParams.epitope)
  IN  CombineConditions(searchConditions \o filterConditions)

(***************************************************************************)
(* Inputs of the query builder                                             *)
(***************************************************************************)

\* a document with the five searchable fields
Doc(d, ab, ag, ep, up) ==
  [disease |-> d, autoantibody |-> ab, autoantigen |-> ag, epitope |-> ep, uniprotId |-> up]

\* values of the search parameter: absent, '', ' ', 'a', ' B ', 'a b', '.'
SearchValues == {Undefined, <<>>, <<32>>, <<97>>, <<32, 66, 32>>, <<97, 32, 98>>, <<46>>}

\* values of the field parameter: absent, all, named fields, an unknown name
FieldValues == {"undefined", "all", "disease", "uniprotId", "bogus"}

\* values of a structured filter: absent, ' ', 'a', ' B '
FilterValues == {Undefined, <<32>>, <<97>>, <<32, 66, 32>>}

SearchParams ==
  [search : SearchValues, field : FieldValues, disease : FilterValues,
   autoantibody : FilterValues, autoantigen : FilterValues, epitope : FilterValues]

\* field values of the documents the built predicate is evaluated on:
\* 'a', 'b', 'a b', 'c'
FieldSamples == {<<97>>, <<98>>, <<97, 32, 98>>, <<99>>}

QueryDocs ==
  {Doc(d, ab, <<97, 32, 98>>, ep, up) :
     d \in FieldSamples, ab \in {<<97>>, <<99>>},
     ep \in {Undefined, <<98>>}, up \in {Undefined, <<66, 49, 50, 51, 52, 53>>}}

NoRequest == [op |-> "none"]
NoResponse == [op |-> "none"]

(***************************************************************************)
(* Specification of the query builder, a pure function of its parameters:  *)
(* the parameters are drawn initially and BuildQuery applies the function. *)
(***************************************************************************)

InitQuery ==
  /\ store = <<>>
  /\ req \in {[op |-> "buildCombinedQuery", searchParams |-> p] : p \in SearchParams}
  /\ res = NoResponse

BuildQuery ==
  /\ req.op = "buildCombinedQuery"
  /\ res = NoResponse
  /\ res' = [op |-> "buildCombinedQuery", query |-> buildCombinedQuery(req.searchParams)]
  /\ UNCHANGED <<store, req>>

NextQuery == BuildQuery

SpecQuery == InitQuery /\ [][NextQuery]_vars

(***************************************************************************)
(* JavaScript numbers, ordering and sorting                                *)
(***************************************************************************)

\* a JavaScript number: NaN or an integer
NaN == [nan |-> TRUE, n |-> 0]
Num(n) == [nan |-> FALSE, n |-> n]

\* the value of the leading decimal digits of s, after acc
RECURSIVE DigitsValue(_, _)
DigitsValue(s, acc) ==
  IF s = <<>> \/ Head(s) \notin 48..57 THEN acc
  ELSE DigitsValue(Tail(s), 10 * acc + (Head(s) - 48))

\* parseInt(s) on a decimal string: leading blanks, a sign, digits; NaN
\* when no digit follows
ParseInt(s) ==
  LET t == TrimStart(s)
      signed == t # <<>> /\ Head(t) \in {43, 45}
      body == IF signed THEN Tail(t) ELSE t
  IN  IF body = <<>> \/ Head(body) \notin 48..57 THEN NaN
      ELSE IF signed /\ Head(t) = 45 THEN Num(0 - DigitsValue(body, 0))
      ELSE Num(DigitsValue(body, 0))

\* Math.min(x, m): NaN if x is NaN
MathMin(x, m) == IF x.nan THEN NaN ELSE IF x.n < m THEN x ELSE Num(m)

\* binary string comparison of the storage (simple collation): a < b
RECURSIVE StrLess(_, _)
StrLess(a, b) ==
  IF b = <<>> THEN FALSE
  ELSE IF a = <<>> THEN TRUE
  ELSE IF Head(a) # Head(b) THEN Head(a) < Head(b)
  ELSE StrLess(Tail(a), Tail(b))

\* the permutations of 1..n
Perms(n) == {p \in [1..n -> 1..n] : \A i, j \in 1..n : i # j => p[i] # p[j]}

\* the documents of a collection in the order given by a permutation
Permuted(coll, p) == [i \in 1..Len(coll) |-> coll[p[i]]]

\* the first n elements of a sequence (cursor limit, $limit)
Take(s, n) == IF n >= Len(s) THEN s ELSE SubSeq(s, 1, n)

\* the set of elements of a sequence
Range(s) == {s[i] : i \in 1..Len(s)}

(***************************************************************************)
(* advancedSearch                                                          *)
(***************************************************************************)

\* the $match stage: any of the five fields matches the term
AnyFieldQuery(searchRegex) ==
  ("$or" :> << ("disease" :> searchRegex),
               ("autoantibody" :> searchRegex),
               ("autoantigen" :> searchRegex),
               ("epitope" :> searchRegex),
               ("uniprotId" :> searchRegex) >>)

\* $regexMatch with input $ifNull(field, ''): an absent field is ''
RegexMatchIfNull(re, v) == RegexTest(re, IF v = Undefined THEN <<>> ELSE v)

\* RelevanceScore with the weights of autoantibody and autoantigen exchanged
RelevanceScore_SwappedWeights(doc, searchRegex) ==
    (IF FieldMatches(searchRegex, doc, "disease") THEN 10 ELSE 0)
  + (IF FieldMatches(searchRegex, doc, "autoantibody") THEN 6 ELSE 0)
  + (IF FieldMatches(searchRegex, doc, "autoantigen") THEN 8 ELSE 0)
  + (IF RegexMatchIfNull(searchRegex, doc.epitope) THEN 4 ELSE 0)
  + (IF RegexMatchIfNull(searchRegex, doc.uniprotId) THEN 2 ELSE 0)

\* the $addFields stage: the weighted sum of the matching fields
RelevanceScore(doc, searchRegex) ==
    (IF FieldMatches(searchRegex, doc, "disease") THEN 10 ELSE 0)
  + (IF FieldMatches(searchRegex, doc, "autoantibody") THEN 8 ELSE 0)
  + (IF FieldMatches(searchRegex, doc, "autoantigen") THEN 6 ELSE 0)
  + (IF RegexMatchIfNull(searchRegex, doc.epitope) THEN 4 ELSE 0)
  + (IF RegexMatchIfNull(searchRegex, doc.uniprotId) THEN 2 ELSE 0)

\* a document of the pipeline after $addFields
WithScore(doc, score) ==
  [disease |-> doc.disease, autoantibody |-> doc.autoantibody,
   autoantigen |-> doc.autoantigen, epitope |-> doc.epitope,
   uniprotId |-> doc.uniprotId, relevanceScore |-> score]

\* RankedBefore sorting on the score alone
RankedBefore_ScoreOnly(x, y) == x.relevanceScore > y.relevanceScore

\* the $sort stage { relevanceScore: -1, disease: 1 }: x sorts before y
RankedBefore(x, y) ==
  \/ x.relevanceScore > y.relevanceScore
  \/ x.relevanceScore = y.relevanceScore /\ StrLess(x.disease, y.disease)

\* sorting by insertion; documents the sort keys do not order keep the order
\* in which the stage received them
RECURSIVE InsertRanked(_, _)
InsertRanked(x, sorted) ==
  IF sorted = <<>> THEN <<x>>
  ELSE IF RankedBefore(x, Head(sorted)) THEN <<x>> \o sorted
  ELSE <<Head(sorted)>> \o InsertRanked(x, Tail(sorted))

RECURSIVE SortRanked(_)
SortRanked(s) ==
  IF s = <<>> THEN <<>>
  ELSE InsertRanked(s[Len(s)], SortRanked(SubSeq(s, 1, Len(s) - 1)))

\* the documents of a scan that satisfy a filter, in scan order
Find(scan, q) == LET Sat(doc) == Matches(q, doc) IN SelectSeq(scan, Sat)

\* the $limit argument: Math.min(parseInt(limit), 100), limit defaulting to 50
AdvancedLimit(limit) ==
  IF limit = Undefined THEN MathMin(Num(50), 100) ELSE MathMin(ParseInt(limit), 100)

\* the $limit stage accepts a positive integer only
LimitStageOk(l) == ~l.nan /\ l.n > 0

\* the ranking pipeline on a scan of the collection
RankingPipeline(scan, searchRegex, l) ==
  LET matched == Find(scan, AnyFieldQuery(searchRegex))
      scored == [i \in 1..Len(matched) |->
                   WithScore(matched[i], RelevanceScore(matched[i], searchRegex))]
  IN  Take(SortRanked(scored), l.n)

\* StatsPipeline matching on disease only
StatsPipeline_DiseaseOnly(scan, searchRegex) ==
  LET matched == Find(scan, ("disease" :> searchRegex))
  IN  IF matched = <<>>
      THEN [totalMatches |-> 0, uniqueDiseasesCount |-> 0,
            uniqueAntibodiesCount |-> 0, uniqueAntigensCount |-> 0]
      ELSE [totalMatches |-> Len(matched),
            uniqueDiseasesCount |-> Cardinality({matched[i].disease : i \in 1..Len(matched)}),
            uniqueAntibodiesCount |-> Cardinality({matched[i].autoantibody : i \in 1..Len(matched)}),
            uniqueAntigensCount |-> Cardinality({matched[i].autoantigen : i \in 1..Len(matched)})]

\* the statistics pipeline: $match, $group, $project; no group when nothing matches
StatsPipeline(scan, searchRegex) ==
  LET matched == Find(scan, AnyFieldQuery(searchRegex))
  IN  IF matched = <<>>
      THEN [totalMatches |-> 0, uniqueDiseasesCount |-> 0,
            uniqueAntibodiesCount |-> 0, uniqueAntigensCount |-> 0]
      ELSE [totalMatches |-> Len(matched),
            uniqueDiseasesCount |-> Cardinality({matched[i].disease : i \in 1..Len(matched)}),
            uniqueAntibodiesCount |-> Cardinality({matched[i].autoantibody : i \in 1..Len(matched)}),
            uniqueAntigensCount |-> Cardinality({matched[i].autoantigen : i \in 1..Len(matched)})]

Null == [null |-> TRUE]

\* TermTooShort measuring the term as supplied, untrimmed
TermTooShort_Untrimmed(searchTerm) == ~Truthy(searchTerm) \/ Len(searchTerm) < 2

\* !searchTerm || searchTerm.trim().length < 2
TermTooShort(searchTerm) == ~Truthy(searchTerm) \/ Len(Trim(searchTerm)) < 2

\* the response of advancedSearch to a query, the storage scanning in order p
AdvancedSearchResponse(query, p) ==
  LET searchTerm == query.q
      scan == Permuted(store, p)
  IN  IF TermTooShort(searchTerm)
      THEN [op |-> "advancedSearch", status |-> 400,
            message |-> "Search term must be at least 2 characters long"]
      ELSE LET searchRegex == TrimmedRegex(searchTerm)
               l == AdvancedLimit(query.limit)
           IN  IF ~LimitStageOk(l)
               THEN [op |-> "advancedSearch", status |-> 500,
                     message |-> "Error performing advanced search"]
               ELSE LET results == RankingPipeline(scan, searchRegex, l)
                    IN  [op |-> "advancedSearch", status |-> 200,
                         data |-> results, count |-> Len(results),
                         searchTerm |-> Trim(searchTerm),
                         stats |-> IF query.includeStats = "true"
                                   THEN StatsPipeline(scan, searchRegex)
                                   ELSE Null]

(***************************************************************************)
(* getFilteredUniqueValues                                                 *)
(***************************************************************************)

FacetFields == {"disease", "autoantibody", "autoantigen", "epitope"}

\* if (v) filterQuery[f] = new RegExp(v.trim().replace(...), 'i')
FacetKey(f, v) == IF Truthy(v) THEN (f :> TrimmedRegex(v)) ELSE EmptyObject

\* FacetFilterQuery constraining autoantibody by the later field autoantigen too
FacetFilterQuery_LaterField(field, disease, autoantibody, autoantigen) ==
  IF field = "autoantibody"
  THEN FacetKey("disease", disease) @@ FacetKey("autoantigen", autoantigen)
  ELSE IF field = "autoantigen"
       THEN FacetKey("disease", disease) @@ FacetKey("autoantibody", autoantibody)
  ELSE IF field = "epitope"
       THEN FacetKey("autoantigen", autoantigen) @@ FacetKey("disease", disease)
            @@ FacetKey("autoantibody", autoantibody)
  ELSE EmptyObject

\* the filter query built from the dependencies of the requested field
FacetFilterQuery(field, disease, autoantibody, autoantigen) ==
  IF field = "autoantibody" THEN FacetKey("disease", disease)
  ELSE IF field = "autoantigen"
       THEN FacetKey("disease", disease) @@ FacetKey("autoantibody", autoantibody)
  ELSE IF field = "epitope"
       THEN FacetKey("autoantigen", autoantigen) @@ FacetKey("disease", disease)
            @@ FacetKey("autoantibody", autoantibody)
  ELSE EmptyObject

\* a sequence without the later occurrences of its elements
RECURSIVE Dedup(_)
Dedup(s) ==
  IF s = <<>> THEN <<>>
  ELSE LET front == Dedup(SubSeq(s, 1, Len(s) - 1))
       IN  IF s[Len(s)] \in Range(front) THEN front ELSE Append(front, s[Len(s)])

\* Distinct taking the values of every document, matching or not
Distinct_Unfiltered(scan, field, q) ==
  LET Has(doc) == doc[field] # Undefined
      having == SelectSeq(scan, Has)
  IN  Dedup([i \in 1..Len(having) |-> having[i][field]])

\* Model.distinct(field, q): the distinct values of the field in the matching
\* documents that have it, as an array
Distinct(scan, field, q) ==
  LET matched == Find(scan, q)
      Has(doc) == doc[field] # Undefined
      having == SelectSeq(matched, Has)
  IN  Dedup([i \in 1..Len(having) |-> having[i][field]])

LowerStr(s) == [i \in 1..Len(s) |-> Lower(s[i])]

\* a.localeCompare(b, undefined, { sensitivity: 'base' }) < 0 on letters,
\* digits and blanks: the order of the case-folded strings
LocaleLess(a, b) == StrLess(LowerStr(a), LowerStr(b))

\* Array.prototype.sort with the localeCompare comparator (a stable sort)
RECURSIVE InsertLocale(_, _)
InsertLocale(x, sorted) ==
  IF sorted = <<>> THEN <<x>>
  ELSE IF LocaleLess(x, Head(sorted)) THEN <<x>> \o sorted
  ELSE <<Head(sorted)>> \o InsertLocale(x, Tail(sorted))

RECURSIVE SortLocale(_)
SortLocale(s) ==
  IF s = <<>> THEN <<>>
  ELSE InsertLocale(s[Len(s)], SortLocale(SubSeq(s, 1, Len(s) - 1)))

\* values.filter(non-blank).map(trim).sort(localeCompare)
FilteredValues(values) ==
  LET Kept(v) == Truthy(v) /\ Trim(v) # <<>>
      kept == SelectSeq(values, Kept)
  IN  SortLocale([i \in 1..Len(kept) |-> Trim(kept[i])])

\* FilteredUniqueValuesResponse without the early return for an epitope
\* request that has no constraint
FilteredUniqueValuesResponse_NoGuard(params, query, p) ==
  LET field == params.field
      disease == query.disease
      autoantibody == query.autoantibody
      autoantigen == query.autoantigen
  IN  IF field \notin FacetFields
      THEN [op |-> "getFilteredUniqueValues", status |-> 400,
            message |-> "Invalid field specified"]
      ELSE LET filterQuery == FacetFilterQuery(field, disease, autoantibody, autoantigen)
               values == Distinct(Permuted(store, p), field, filterQuery)
               filteredValues == FilteredValues(values)
           IN  [op |-> "getFilteredUniqueValues", status |-> 200,
                data |-> filteredValues, count |-> Len(filteredValues),
                appliedFilters |-> [disease |-> disease, autoantibody |-> autoantibody,
                                    autoantigen |-> autoantigen]]

\* the response of getFilteredUniqueValues, the storage scanning in order p
FilteredUniqueValuesResponse(params, query, p) ==
  LET field == params.field
      disease == query.disease
      autoantibody == query.autoantibody
      autoantigen == query.autoantigen
  IN  IF field \notin FacetFields
      THEN [op |-> "getFilteredUniqueValues", status |-> 400,
            message |-> "Invalid field specified"]
      ELSE IF /\ field = "epitope"
              /\ ~Truthy(autoantigen) /\ ~Truthy(disease) /\ ~Truthy(autoantibody)
      THEN [op |-> "getFilteredUniqueValues", status |-> 200, data |-> <<>>, count |-> 0]
      ELSE LET filterQuery == FacetFilterQuery(field, disease, autoantibody, autoantigen)
               values == Distinct(Permuted(store, p), field, filterQuery)
               filteredValues == FilteredValues(values)
           IN  [op |-> "getFilteredUniqueValues", status |-> 200,
                data |-> filteredValues, count |-> Len(filteredValues),
                appliedFilters |-> [disease |-> disease, autoantibody |-> autoantibody,
                                    autoantigen |-> autoantigen]]

(***************************************************************************)
(* getUniqueValues                                                         *)
(***************************************************************************)

\* the response of getUniqueValues, the storage scanning in order p
UniqueValuesResponse(params, p) ==
  IF params.field \notin SearchableFields
  THEN [op |-> "getUniqueValues", status |-> 400, message |-> "Invalid field specified"]
  ELSE LET values == Distinct(Permuted(store, p), params.field, EmptyObject)
           filteredValues == FilteredValues(values)
       IN  [op |-> "getUniqueValues", status |-> 200,
            data |-> filteredValues, count |-> Len(filteredValues)]

(***************************************************************************)
(* exportEntries (JSON format)                                             *)
(***************************************************************************)

\* if (v) query[f] = new RegExp(v.replace(...), 'i'): the value is not trimmed
ExportKey(f, v) == IF Truthy(v) THEN (f :> RegExp(EscapeRegex(v))) ELSE EmptyObject

ExportQuery(disease, autoantibody, autoantigen) ==
  ExportKey("disease", disease) @@ ExportKey("autoantibody", autoantibody)
  @@ ExportKey("autoantigen", autoantigen)

\* .sort({ disease: 1, autoantibody: 1 }): x sorts before y
ExportBefore(x, y) ==
  \/ StrLess(x.disease, y.disease)
  \/ x.disease = y.disease /\ StrLess(x.autoantibody, y.autoantibody)

RECURSIVE InsertExport(_, _)
InsertExport(x, sorted) ==
  IF sorted = <<>> THEN <<x>>
  ELSE IF ExportBefore(x, Head(sorted)) THEN <<x>> \o sorted
  ELSE <<Head(sorted)>> \o InsertExport(x, Tail(sorted))

RECURSIVE SortExport(_)
SortExport(s) ==
  IF s = <<>> THEN <<>>
  ELSE InsertExport(s[Len(s)], SortExport(SubSeq(s, 1, Len(s) - 1)))

\* the response of exportEntries with the JSON format
ExportResponse(query, p) ==
  LET sorted == SortExport(Find(Permuted(store, p),
                    ExportQuery(query.disease, query.autoantibody, query.autoantigen)))
      limited == IF Truthy(query.limit) /\ ~ParseInt(query.limit).nan
                    /\ ParseInt(query.limit).n > 0
                 THEN Take(sorted, MathMin(ParseInt(query.limit), 10000).n)
                 ELSE sorted
  IN  [op |-> "exportEntries", status |-> 200, data |-> limited, count |-> Len(limited),
       exportFormat |-> "json",
       appliedFilters |-> [disease |-> query.disease, autoantibody |-> query.autoantibody,
                           autoantigen |-> query.autoantigen]]

(***************************************************************************)
(* searchEntries                                                           *)
(***************************************************************************)

\* Math.min(parseInt(limit), 100), limit defaulting to 20
SearchLimit(limit) ==
  IF limit = Undefined THEN MathMin(Num(20), 100) ELSE MathMin(ParseInt(limit), 100)

\* the response of searchEntries, the storage scanning in order p; the query
\* sorts by { disease: 1, autoantibody: 1 } and then limits
SearchEntriesResponse(query, p) ==
  LET searchTerm == query.q
      field == IF query.field = "undefined" THEN "all" ELSE query.field
  IN  IF ~Truthy(searchTerm) \/ Len(Trim(searchTerm)) < 1
      THEN [op |-> "searchEntries", status |-> 400, message |-> "Search term is required"]
      ELSE LET q == buildCombinedQuery([search |-> searchTerm, field |-> field,
                                        disease |-> Undefined, autoantibody |-> Undefined,
                                        autoantigen |-> Undefined, epitope |-> Undefined])
               maxLimit == SearchLimit(query.limit)
               entries == Take(SortExport(Find(Permuted(store, p), q)), maxLimit.n)
           IN  [op |-> "searchEntries", status |-> 200, data |-> entries,
                count |-> Len(entries), searchTerm |-> Trim(searchTerm)]

(***************************************************************************)
(* getAllEntries                                                           *)
(***************************************************************************)

\* parseInt of a query parameter that may be absent
ParseParam(v) == IF v = Undefined THEN NaN ELSE ParseInt(v)

\* x || d on numbers: d when x is NaN or 0
OrDefault(x, d) == IF x.nan \/ x.n = 0 THEN d ELSE x.n

\* Math.max(1, v)
AtLeastOne(v) == IF v < 1 THEN 1 ELSE v

\* PageOf without Math.max(1, .)
PageOf_Unclamped(page) == OrDefault(ParseParam(page), 1)

\* Math.max(1, parseInt(req.query.page) || 1)
PageOf(page) == AtLeastOne(OrDefault(ParseParam(page), 1))

\* Math.min(Math.max(1, parseInt(req.query.limit) || 10), 100)
LimitOf(limit) == MathMin(Num(AtLeastOne(OrDefault(ParseParam(limit), 10))), 100).n

\* (page - 1) * limit
SkipOf(page, limit) == (PageOf(page) - 1) * LimitOf(limit)

ValidSortFields ==
  {"disease", "autoantibody", "autoantigen", "epitope", "uniprotId", "createdAt", "updatedAt"}

\* validSortFields.includes(sortBy) ? sortBy : 'disease', sortBy defaulting to 'disease'
SortFieldOf(sortBy) == IF sortBy \in ValidSortFields THEN sortBy ELSE "disease"

\* sortOrder defaulting to 'asc'
SortOrderOf(sortOrder) == IF sortOrder = "undefined" THEN "asc" ELSE sortOrder

\* .sort({ [sortField]: sortOrder === 'desc' ? -1 : 1 }): x sorts before y
ListBefore(x, y, sortField, sortOrder) ==
  IF sortOrder = "desc" THEN StrLess(y[sortField], x[sortField])
  ELSE StrLess(x[sortField], y[sortField])

\* the sorted scan; documents with equal keys stay in scan order
SortList(s, sortField, sortOrder) ==
  LET rank(i) == Cardinality({j \in 1..Len(s) :
                    \/ ListBefore(s[j], s[i], sortField, sortOrder)
                    \/ ~ListBefore(s[i], s[j], sortField, sortOrder) /\ j < i}) + 1
  IN  [k \in 1..Len(s) |-> s[CHOOSE i \in 1..Len(s) : rank(i) = k]]

\* cursor skip: the sequence without its first n elements
Skip(s, n) ==
  IF n >= Len(s) THEN <<>> ELSE IF n <= 0 THEN s ELSE SubSeq(s, n + 1, Len(s))

\* Ceil rounding down
Ceil_Floor(total, limit) == total \div limit

\* Math.ceil(total / limit)
Ceil(total, limit) == (total + limit - 1) \div limit

\* v || null
OrNull(v) == IF Truthy(v) THEN v ELSE Null

\* the response of getAllEntries, the storage scanning in order p
\* the filter getAllEntries hands to both of its storage reads
ListFilter(query) ==
  buildCombinedQuery([search |-> query.search, field |-> query.field,
                      disease |-> query.disease,
                      autoantibody |-> query.autoantibody,
                      autoantigen |-> query.autoantigen,
                      epitope |-> query.epitope])

\* find(query).sort(sortConfig).skip(skip).limit(limit) on a scan of the collection
ListEntries(query, scan) ==
  Take(Skip(SortList(Find(scan, ListFilter(query)), SortFieldOf(query.sortBy),
                     SortOrderOf(query.sortOrder)),
            SkipOf(query.page, query.limit)),
       LimitOf(query.limit))

\* countDocuments(query) on a collection
ListTotal(query, collection) == Len(Find(collection, ListFilter(query)))

\* the response getAllEntries builds from the results of its two reads
ListResponse(query, entries, total) ==
  LET page == PageOf(query.page)
      limit == LimitOf(query.limit)
      sortField == SortFieldOf(query.sortBy)
      sortOrder == SortOrderOf(query.sortOrder)
  IN  [op |-> "getAllEntries", status |-> 200, data |-> entries,
       pagination |-> [page |-> page, limit |-> limit, total |-> total,
                       pages |-> Ceil(total, limit)],
       appliedFilters |-> [search |-> OrNull(query.search),
                           field |-> IF query.field = "undefined" THEN Null
                                     ELSE query.field,
                           disease |-> OrNull(query.disease),
                           autoantibody |-> OrNull(query.autoantibody),
                           autoantigen |-> OrNull(query.autoantigen),
                           epitope |-> OrNull(query.epitope),
                           sortBy |-> sortField, sortOrder |-> sortOrder]]

\* getAllEntries with both reads answered from the same collection
AllEntriesResponse(query, p) ==
  ListResponse(query, ListEntries(query, Permuted(store, p)), ListTotal(query, store))

(***************************************************************************)
(* escapeCSV and convertToCSV.  A Date is held as its ISO string           *)
(* (YYYY-MM-DDTHH:mm:ss.sssZ), which is what toISOString gives.            *)
(***************************************************************************)

\* s.replace(/"/g, '""')
RECURSIVE DoubleQuotes(_)
DoubleQuotes(s) ==
  IF s = <<>> THEN <<>>
  ELSE IF Head(s) = 34 THEN <<34, 34>> \o DoubleQuotes(Tail(s))
  ELSE <<Head(s)>> \o DoubleQuotes(Tail(s))

\* stringValue.includes(',') || includes('"') || includes('\n')
NeedsQuoting(s) == \E i \in 1..Len(s) : s[i] \in {44, 34, 10}

\* escapeCSV wrapping in quotes without doubling the quotes inside
escapeCSV_NoDoubling(str) ==
  IF ~Truthy(str) THEN <<>>
  ELSE IF NeedsQuoting(str) THEN <<34>> \o str \o <<34>>
  ELSE str

escapeCSV(str) ==
  IF ~Truthy(str) THEN <<>>
  ELSE IF NeedsQuoting(str) THEN <<34>> \o DoubleQuotes(str) \o <<34>>
  ELSE str

\* v || ''
OrEmpty(v) == IF Truthy(v) THEN v ELSE <<>>

\* parts.join(sep)
RECURSIVE Join(_, _)
Join(parts, sep) ==
  IF parts = <<>> THEN <<>>
  ELSE IF Len(parts) = 1 THEN parts[1]
  ELSE parts[1] \o sep \o Join(Tail(parts), sep)

\* iso.split('T')[0]
RECURSIVE BeforeT(_)
BeforeT(iso) ==
  IF iso = <<>> \/ Head(iso) = 84 THEN <<>> ELSE <<Head(iso)>> \o BeforeT(Tail(iso))

\* d ? new Date(d).toISOString().split('T')[0] : ''
DayOrEmpty(d) == IF d = Undefined THEN <<>> ELSE BeforeT(d)

CSVHeaders ==
  <<<<68, 105, 115, 101, 97, 115, 101>>,
    <<65, 117, 116, 111, 97, 110, 116, 105, 98, 111, 100, 121>>,
    <<65, 117, 116, 111, 97, 110, 116, 105, 103, 101, 110>>,
    <<69, 112, 105, 116, 111, 112, 101>>,
    <<85, 110, 105, 80, 114, 111, 116, 32, 73, 68>>,
    <<68, 97, 116, 101, 32, 65, 100, 100, 101, 100>>,
    <<76, 97, 115, 116, 32, 85, 112, 100, 97, 116, 101, 100>>,
    <<86, 101, 114, 105, 102, 105, 101, 100>>>>

\* the row convertToCSV builds for an entry
CSVRow(entry) ==
  << escapeCSV(OrEmpty(entry.disease)),
     escapeCSV(OrEmpty(entry.autoantibody)),
     escapeCSV(OrEmpty(entry.autoantigen)),
     escapeCSV(OrEmpty(entry.epitope)),
     escapeCSV(OrEmpty(entry.uniprotId)),
     DayOrEmpty(entry.createdAt),
     DayOrEmpty(entry.metadata.lastUpdated),
     IF entry.metadata.verified THEN <<89, 101, 115>> ELSE <<78, 111>> >>

convertToCSV(entries) ==
  IF Len(entries) = 0 THEN <<>>
  ELSE LET csvRows == <<Join(CSVHeaders, <<44>>)>>
                      \o [i \in 1..Len(entries) |-> Join(CSVRow(entries[i]), <<44>>)]
       IN  Join(csvRows, <<10>>)

(***************************************************************************)
(* createEntry and deleteEntry                                             *)
(***************************************************************************)

\* the schema's trim setter: strings are trimmed, an absent field stays absent
SchemaTrim(v) == IF v = Undefined THEN Undefined ELSE Trim(v)

\* /^[A-Z][0-9A-Z]{5}$/.test(v)
UniprotPattern(v) ==
  /\ Len(v) = 6
  /\ v[1] \in 65..90
  /\ \A i \in 2..6 : v[i] \in (48..57) \cup (65..90)

\* the literal 'Multiple'
Multiple == <<77, 117, 108, 116, 105, 112, 108, 101>>

\* UniprotIdValid accepting every value
UniprotIdValid_Any(v) == TRUE

\* the schema's uniprotId validator: !v || /^[A-Z][0-9A-Z]{5}$/ || 'Multiple'
UniprotIdValid(v) ==
  \/ ~Truthy(v)
  \/ UniprotPattern(v)
  \/ v = Multiple

\* the document mongoose builds from a request body
CastDoc(body) ==
  Doc(SchemaTrim(body.disease), SchemaTrim(body.autoantibody),
      SchemaTrim(body.autoantigen), SchemaTrim(body.epitope), SchemaTrim(body.uniprotId))

\* schema validation on save: required fields present, uniprotId well formed
SchemaValid(doc) ==
  /\ Truthy(doc.disease) /\ Truthy(doc.autoantibody) /\ Truthy(doc.autoantigen)
  /\ UniprotIdValid(doc.uniprotId)

(***************************************************************************)
(* getEntryById, getEntriesByDisease, getEntriesByUniprotId, getStatistics *)
(***************************************************************************)

\* the $or of getRelatedEntries on a stored document: same disease, same
\* autoantigen, or same uniprotId when the entry has one other than
\* 'Multiple'; conditions with a falsy value are filtered out
Related(entry, doc) ==
  \/ Truthy(entry.disease) /\ doc.disease = entry.disease
  \/ Truthy(entry.autoantigen) /\ doc.autoantigen = entry.autoantigen
  \/ /\ Truthy(entry.uniprotId) /\ entry.uniprotId # Multiple
     /\ doc.uniprotId = entry.uniprotId

\* getRelatedEntries: up to 5 other documents, in scan order
getRelatedEntries(id, p) ==
  LET IsRelated(k) == k # id /\ Related(store[id], store[k])
      positions == SelectSeq(p, IsRelated)
  IN  Take([i \in 1..Len(positions) |-> store[positions[i]]], 5)

\* the response of getEntryById; id 0 stands for a malformed id, another id
\* for the document at that position
EntryByIdResponse(id, p) ==
  IF id = 0
  THEN [op |-> "getEntryById", status |-> 400, message |-> "Valid entry ID is required"]
  ELSE IF id > Len(store)
  THEN [op |-> "getEntryById", status |-> 404, message |-> "Entry not found"]
  ELSE [op |-> "getEntryById", status |-> 200, data |-> store[id],
        relatedEntries |-> getRelatedEntries(id, p)]

\* .sort({ [f1]: 1, [f2]: 1 }): x sorts before y
FieldsBefore(x, y, f1, f2) ==
  \/ StrLess(x[f1], y[f1])
  \/ x[f1] = y[f1] /\ StrLess(x[f2], y[f2])

\* the scan sorted on two fields; documents with equal keys stay in scan order
SortFields(s, f1, f2) ==
  LET rank(i) == Cardinality({j \in 1..Len(s) :
                    \/ FieldsBefore(s[j], s[i], f1, f2)
                    \/ ~FieldsBefore(s[i], s[j], f1, f2) /\ j < i}) + 1
  IN  [k \in 1..Len(s) |-> s[CHOOSE i \in 1..Len(s) : rank(i) = k]]

\* the response of getEntriesByDisease, the storage scanning in order p
EntriesByDiseaseResponse(disease, p) ==
  IF ~Truthy(disease) \/ ~Truthy(Trim(disease))
  THEN [op |-> "getEntriesByDisease", status |-> 400, message |-> "Disease name is required"]
  ELSE LET entries == SortFields(Find(Permuted(store, p),
                                     ("disease" :> TrimmedRegex(disease))),
                                "autoantibody", "autoantigen")
       IN  [op |-> "getEntriesByDisease", status |-> 200, data |-> entries,
            count |-> Len(entries)]

\* String.prototype.toUpperCase (ASCII letters)
UpperStr(s) == [i \in 1..Len(s) |-> IF s[i] \in 97..122 THEN s[i] - 32 ELSE s[i]]

\* the response of getEntriesByUniprotId, the storage scanning in order p
EntriesByUniprotIdResponse(uniprotId, p) ==
  IF ~Truthy(uniprotId) \/ ~Truthy(Trim(uniprotId))
  THEN [op |-> "getEntriesByUniprotId", status |-> 400, message |-> "UniProt ID is required"]
  ELSE LET Same(doc) == doc.uniprotId = Trim(UpperStr(uniprotId))
           entries == SortFields(SelectSeq(Permuted(store, p), Same),
                                "disease", "autoantibody")
       IN  [op |-> "getEntriesByUniprotId", status |-> 200, data |-> entries,
            count |-> Len(entries)]

\* { $group: { _id: '$field', count: { $sum: 1 } } }, { $sort: { count: -1 } },
\* { $limit: n }: groups with equal counts stay in the order the scan meets them
Breakdown(scan, field, n) ==
  LET keys == Dedup([i \in 1..Len(scan) |-> scan[i][field]])
      groups == [k \in 1..Len(keys) |->
                   [id |-> keys[k],
                    count |-> Cardinality({i \in 1..Len(scan) : scan[i][field] = keys[k]})]]
      rank(i) == Cardinality({j \in 1..Len(groups) :
                    \/ groups[j].count > groups[i].count
                    \/ groups[j].count = groups[i].count /\ j < i}) + 1
  IN  Take([k \in 1..Len(groups) |-> groups[CHOOSE i \in 1..Len(groups) : rank(i) = k]], n)

\* the $group and $project of the overview; {} on an empty collection.  No
\* document of the model is verified
Overview ==
  IF store = <<>> THEN EmptyObject
  ELSE [totalEntries |-> Len(store),
        verifiedEntries |-> 0,
        uniqueDiseases |-> {store[i].disease : i \in 1..Len(store)},
        uniqueAntibodies |-> {store[i].autoantibody : i \in 1..Len(store)},
        uniqueAntigens |-> {store[i].autoantigen : i \in 1..Len(store)},
        uniqueDiseasesCount |-> Cardinality({store[i].disease : i \in 1..Len(store)}),
        uniqueAntibodiesCount |-> Cardinality({store[i].autoantibody : i \in 1..Len(store)}),
        uniqueAntigensCount |-> Cardinality({store[i].autoantigen : i \in 1..Len(store)}),
        uniqueUniprotIdsCount |->
          Cardinality({store[i].uniprotId : i \in 1..Len(store)} \ {Undefined})]

\* the response of getStatistics, the storage scanning in order p
StatisticsResponse(p) ==
  [op |-> "getStatistics", status |-> 200,
   data |-> [overview |-> Overview,
             diseaseBreakdown |-> Breakdown(Permuted(store, p), "disease", 20),
             topAntibodies |-> Breakdown(Permuted(store, p), "autoantibody", 10),
             topAntigens |-> Breakdown(Permuted(store, p), "autoantigen", 10)]]

(***************************************************************************)
(* updateEntry                                                             *)
(***************************************************************************)

\* the fields of a document the model keeps
DocFields == {"disease", "autoantibody", "autoantigen", "epitope", "uniprotId"}

\* the fields the schema requires
RequiredFields == {"disease", "autoantibody", "autoantigen"}

\* the $set mongoose builds from the body: each value through the trim setter
CastUpdate(body) == [f \in DOMAIN body |-> SchemaTrim(body[f])]

\* the update validators (runValidators: true) on the paths that are set
UpdateValid(set) ==
  /\ \A f \in DOMAIN set \cap RequiredFields : Truthy(set[f])
  /\ "uniprotId" \in DOMAIN set => UniprotIdValid(set.uniprotId)

\* the document after the $set
Updated(doc, set) == [f \in DocFields |-> IF f \in DOMAIN set THEN set[f] ELSE doc[f]]

(***************************************************************************)
(* bulkImport                                                              *)
(***************************************************************************)

\* the errors validateBulkEntries records for the entry at an index
EntryErrors(entry, index) ==
  (IF ~Truthy(entry.disease) \/ ~Truthy(Trim(entry.disease))
   THEN <<[index |-> index, error |-> "Disease is required"]>> ELSE <<>>)
  \o (IF ~Truthy(entry.autoantibody) \/ ~Truthy(Trim(entry.autoantibody))
      THEN <<[index |-> index, error |-> "Autoantibody is required"]>> ELSE <<>>)
  \o (IF ~Truthy(entry.autoantigen) \/ ~Truthy(Trim(entry.autoantigen))
      THEN <<[index |-> index, error |-> "Autoantigen is required"]>> ELSE <<>>)
  \o (IF Truthy(entry.uniprotId) /\ entry.uniprotId # Multiple
         /\ ~UniprotPattern(entry.uniprotId)
      THEN <<[index |-> index, error |-> "Invalid UniProt ID format"]>> ELSE <<>>)

RECURSIVE ErrorsFrom(_, _)
ErrorsFrom(entries, index) ==
  IF index > Len(entries) THEN <<>>
  ELSE EntryErrors(entries[index], index) \o ErrorsFrom(entries, index + 1)

validateBulkEntries(entries) == ErrorsFrom(entries, 1)

\* the largest batch bulkImport accepts
MaxBulk == 1000

\* insertMany(entries, { ordered: false }): the documents inserted, those
\* failing schema validation being left out
InsertMany(entries) ==
  LET docs == [i \in 1..Len(entries) |-> CastDoc(entries[i])]
  IN  SelectSeq(docs, SchemaValid)

(***************************************************************************)
(* Requests                                                                *)
(***************************************************************************)

\* the largest number of documents the collection holds in the model
MaxStore == 2

\* request bodies of createEntry.  Fields use 'ab', 'aB', 'Ab', 'c', 'cc',
\* 'cab', 'ABCDEF', 'Multiple'; one body has a blank disease
CreateBodies ==
  { Doc(<<97, 98>>, <<99>>, <<99>>, Undefined, Undefined),
    Doc(<<97, 98>>, <<99, 99>>, <<99>>, Undefined, Undefined),
    Doc(<<99>>, <<65, 98>>, <<99>>, <<99>>, Undefined),
    Doc(<<99, 97, 98>>, <<99>>, <<99>>, Undefined, Undefined),
    Doc(<<97, 66>>, <<97, 98>>, <<65, 98>>, <<97, 98>>, <<65, 66, 67, 68, 69, 70>>),
    Doc(<<99>>, <<99>>, <<65, 98>>, Undefined, <<65, 66, 67, 68, 69, 70>>),
    Doc(<<99>>, <<99, 99>>, <<99>>, <<99>>, <<77, 117, 108, 116, 105, 112, 108, 101>>),
    Doc(<<32>>, <<99>>, <<99>>, Undefined, Undefined) }

\* q of advancedSearch: absent, 'a', ' a', 'ab', ' AB ', 'bb'
TermValues ==
  {Undefined, <<97>>, <<32, 97>>, <<97, 98>>, <<32, 65, 66, 32>>, <<98, 98>>}

\* limit of advancedSearch: absent, 'abc', '0', '-1', '1', '2', '101'
LimitValues ==
  {Undefined, <<97, 98, 99>>, <<48>>, <<45, 49>>, <<49>>, <<50>>, <<49, 48, 49>>}

AdvancedQueries == [q : TermValues, limit : LimitValues, includeStats : {"undefined", "true"}]

\* field of a facet request, uniprotId not being a facet field
FacetParams == [field : FacetFields \cup {"uniprotId"}]

\* a facet constraint: absent, ' ', 'C'
ConstraintValues == {Undefined, <<32>>, <<67>>}

\* the disease constraint of a facet request: absent, ' ', 'C', ' c'
DiseaseConstraints == {Undefined, <<32>>, <<67>>, <<32, 99>>}

\* the autoantibody constraint of a facet request: absent, '', 'C'
AntibodyConstraints == {Undefined, <<>>, <<67>>}

FacetQueries ==
  [disease : DiseaseConstraints, autoantibody : AntibodyConstraints,
   autoantigen : ConstraintValues]

\* the disease of getEntriesByDisease: ' ', 'C', ' ab'
DiseaseParams == {<<32>>, <<67>>, <<32, 97, 98>>}

\* the uniprotId of getEntriesByUniprotId: ' ', ' abcdef', 'Multiple'
UniprotParams == {<<32>>, <<32, 97, 98, 99, 100, 101, 102>>, Multiple}

\* bodies of updateEntry: disease ' cc ', disease ' ', uniprotId 'abc',
\* uniprotId ''
UpdateBodies ==
  { ("disease" :> <<32, 99, 99, 32>>),
    ("disease" :> <<32>>),
    ("uniprotId" :> <<97, 98, 99>>),
    ("uniprotId" :> <<>>) }

\* entries of a bulk import: a valid one, a valid one with an untrimmed
\* disease and uniprotId 'Multiple', one with a blank disease, one with the
\* uniprotId 'abc'
BulkEntries ==
  { Doc(<<97, 98>>, <<99>>, <<99>>, Undefined, Undefined),
    Doc(<<32, 99, 32>>, <<65, 98>>, <<99>>, Undefined, Multiple),
    Doc(<<32>>, <<99>>, <<99>>, Undefined, Undefined),
    Doc(<<99>>, <<99>>, <<99>>, Undefined, <<97, 98, 99>>) }

\* the longest batch of the model
MaxBatch == 2

BulkBatches == UNION {[1..n -> BulkEntries] : n \in 0..MaxBatch}

\* q, field and limit of searchEntries: q absent, ' ', 'c', ' ab'; limit absent, '1'
SearchQueries ==
  [q : {Undefined, <<32>>, <<99>>, <<32, 97, 98>>},
   field : {"undefined", "all", "autoantibody", "bogus"},
   limit : {Undefined, <<49>>}]

\* page of getAllEntries: absent, 'x', '0', '-1', '2'
PageValues == {Undefined, <<120>>, <<48>>, <<45, 49>>, <<50>>}

\* limit of getAllEntries: absent, 'abc', '0', '-1', '1', '101'
ListLimitValues == {Undefined, <<97, 98, 99>>, <<48>>, <<45, 49>>, <<49>>, <<49, 48, 49>>}

\* requests of getAllEntries that page and sort the whole collection
PagingQueries ==
  [search : {Undefined}, field : {"undefined"}, disease : {Undefined},
   autoantibody : {Undefined}, autoantigen : {Undefined}, epitope : {Undefined},
   page : PageValues, limit : ListLimitValues,
   sortBy : {"undefined", "autoantibody", "bogus"}, sortOrder : {"undefined", "desc"}]

\* requests of getAllEntries that filter, with the default paging and sorting
FilteringQueries ==
  [search : {Undefined, <<97, 98>>}, field : {"undefined", "all", "disease", "bogus"},
   disease : {Undefined, <<99>>},
   autoantibody : {Undefined}, autoantigen : {Undefined}, epitope : {Undefined},
   page : {Undefined}, limit : {Undefined},
   sortBy : {"undefined"}, sortOrder : {"undefined"}]

ListQueries == PagingQueries \cup FilteringQueries

\* field of getUniqueValues, type not being a listed field
UniqueParams == [field : SearchableFields \cup {"type"}]

\* parameters of exportEntries: constraints absent, ' ' or 'C'; limit absent, '1'
ExportQueries ==
  [disease : ConstraintValues, autoantibody : {Undefined, <<67>>},
   autoantigen : {Undefined, <<32>>}, limit : {Undefined, <<49>>}]

(***************************************************************************)
(* Specification: requests are handled one at a time, each handler runs    *)
(* to completion and its response is delivered before the next request.    *)
(***************************************************************************)

Init == store = <<>> /\ req = NoRequest /\ res = NoResponse

createEntry ==
  /\ req = NoRequest
  /\ \E body \in CreateBodies :
       /\ req' = [op |-> "createEntry", body |-> body]
       /\ IF ~Truthy(body.disease) \/ ~Truthy(body.autoantibody) \/ ~Truthy(body.autoantigen)
          THEN /\ res' = [op |-> "createEntry", status |-> 400,
                          message |-> "Disease, autoantibody, and autoantigen are required"]
               /\ UNCHANGED store
          ELSE IF ~SchemaValid(CastDoc(body))
          THEN /\ res' = [op |-> "createEntry", status |-> 400, message |-> "Validation error"]
               /\ UNCHANGED store
          ELSE /\ Len(store) < MaxStore
               /\ store' = Append(store, CastDoc(body))
               /\ res' = [op |-> "createEntry", status |-> 201, data |-> CastDoc(body)]

\* id 0 stands for a malformed id, another id for the document at that position
deleteEntry ==
  /\ req = NoRequest
  /\ \E id \in 0..(Len(store) + 1) :
       /\ req' = [op |-> "deleteEntry", params |-> [id |-> id]]
       /\ IF id = 0
          THEN /\ res' = [op |-> "deleteEntry", status |-> 400,
                          message |-> "Valid entry ID is required"]
               /\ UNCHANGED store
          ELSE IF id > Len(store)
          THEN /\ res' = [op |-> "deleteEntry", status |-> 404, message |-> "Entry not found"]
               /\ UNCHANGED store
          ELSE /\ store' = SubSeq(store, 1, id - 1) \o SubSeq(store, id + 1, Len(store))
               /\ res' = [op |-> "deleteEntry", status |-> 200,
                          message |-> "Entry deleted successfully"]

\* id 0 stands for a malformed id, another id for the document at that position
updateEntry ==
  /\ req = NoRequest
  /\ \E id \in 0..(Len(store) + 1), body \in UpdateBodies :
       /\ req' = [op |-> "updateEntry", params |-> [id |-> id], body |-> body]
       /\ IF id = 0
          THEN /\ res' = [op |-> "updateEntry", status |-> 400,
                          message |-> "Valid entry ID is required"]
               /\ UNCHANGED store
          ELSE IF ~UpdateValid(CastUpdate(body))
          THEN /\ res' = [op |-> "updateEntry", status |-> 400, message |-> "Validation error"]
               /\ UNCHANGED store
          ELSE IF id > Len(store)
          THEN /\ res' = [op |-> "updateEntry", status |-> 404, message |-> "Entry not found"]
               /\ UNCHANGED store
          ELSE /\ store' = [store EXCEPT ![id] = Updated(@, CastUpdate(body))]
               /\ res' = [op |-> "updateEntry", status |-> 200,
                          data |-> Updated(store[id], CastUpdate(body))]

bulkImport ==
  /\ req = NoRequest
  /\ \E entries \in BulkBatches :
       /\ req' = [op |-> "bulkImport", body |-> [entries |-> entries]]
       /\ IF Len(entries) = 0
          THEN /\ res' = [op |-> "bulkImport", status |-> 400,
                          message |-> "Entries array is required and cannot be empty"]
               /\ UNCHANGED store
          ELSE IF Len(entries) > MaxBulk
          THEN /\ res' = [op |-> "bulkImport", status |-> 400,
                          message |-> "Cannot import more than 1000 entries at once"]
               /\ UNCHANGED store
          ELSE IF validateBulkEntries(entries) # <<>>
          THEN /\ res' = [op |-> "bulkImport", status |-> 400,
                          message |-> "Validation errors in bulk data",
                          errors |-> validateBulkEntries(entries)]
               /\ UNCHANGED store
          ELSE /\ Len(store) + Len(entries) <= MaxStore
               /\ store' = store \o InsertMany(entries)
               /\ res' = [op |-> "bulkImport", status |-> 200,
                          data |-> [inserted |-> Len(InsertMany(entries)),
                                    total |-> Len(entries),
                                    failed |-> Len(entries) - Len(InsertMany(entries))]]

getEntryById ==
  /\ req = NoRequest
  /\ \E id \in 0..(Len(store) + 1), p \in Perms(Len(store)) :
       /\ req' = [op |-> "getEntryById", params |-> [id |-> id]]
       /\ res' = EntryByIdResponse(id, p)
  /\ UNCHANGED store

getEntriesByDisease ==
  /\ req = NoRequest
  /\ \E disease \in DiseaseParams, p \in Perms(Len(store)) :
       /\ req' = [op |-> "getEntriesByDisease", params |-> [disease |-> disease]]
       /\ res' = EntriesByDiseaseResponse(disease, p)
  /\ UNCHANGED store

getEntriesByUniprotId ==
  /\ req = NoRequest
  /\ \E uniprotId \in UniprotParams, p \in Perms(Len(store)) :
       /\ req' = [op |-> "getEntriesByUniprotId", params |-> [uniprotId |-> uniprotId]]
       /\ res' = EntriesByUniprotIdResponse(uniprotId, p)
  /\ UNCHANGED store

\* getStatistics emptying the collection
getStatistics_Clearing ==
  /\ req = NoRequest
  /\ \E p \in Perms(Len(store)) :
       /\ req' = [op |-> "getStatistics"]
       /\ res' = StatisticsResponse(p)
  /\ store' = <<>>

getStatistics ==
  /\ req = NoRequest
  /\ \E p \in Perms(Len(store)) :
       /\ req' = [op |-> "getStatistics"]
       /\ res' = StatisticsResponse(p)
  /\ UNCHANGED store

advancedSearch ==
  /\ req = NoRequest
  /\ \E query \in AdvancedQueries, p \in Perms(Len(store)) :
       /\ req' = [op |-> "advancedSearch", query |-> query]
       /\ res' = AdvancedSearchResponse(query, p)
  /\ UNCHANGED store

getFilteredUniqueValues ==
  /\ req = NoRequest
  /\ \E params \in FacetParams, query \in FacetQueries, p \in Perms(Len(store)) :
       /\ req' = [op |-> "getFilteredUniqueValues", params |-> params, query |-> query]
       /\ res' = FilteredUniqueValuesResponse(params, query, p)
  /\ UNCHANGED store

searchEntries ==
  /\ req = NoRequest
  /\ \E query \in SearchQueries, p \in Perms(Len(store)) :
       /\ req' = [op |-> "searchEntries", query |-> query]
       /\ res' = SearchEntriesResponse(query, p)
  /\ UNCHANGED store

getAllEntries ==
  /\ req = NoRequest
  /\ \E query \in ListQueries, p \in Perms(Len(store)) :
       /\ req' = [op |-> "getAllEntries", query |-> query]
       /\ res' = AllEntriesResponse(query, p)
  /\ UNCHANGED store

getUniqueValues ==
  /\ req = NoRequest
  /\ \E params \in UniqueParams, p \in Perms(Len(store)) :
       /\ req' = [op |-> "getUniqueValues", params |-> params]
       /\ res' = UniqueValuesResponse(params, p)
  /\ UNCHANGED store

exportEntries ==
  /\ req = NoRequest
  /\ \E query \in ExportQueries, p \in Perms(Len(store)) :
       /\ req' = [op |-> "exportEntries", query |-> query]
       /\ res' = ExportResponse(query, p)
  /\ UNCHANGED store

\* the response leaves the server; the next request can be taken
Deliver ==
  /\ req # NoRequest
  /\ req' = NoRequest
  /\ res' = NoResponse
  /\ UNCHANGED store

Next ==
  \/ createEntry
  \/ deleteEntry
  \/ advancedSearch
  \/ getFilteredUniqueValues
  \/ getUniqueValues
  \/ searchEntries
  \/ getAllEntries
  \/ getEntryById
  \/ getEntriesByDisease
  \/ getEntriesByUniprotId
  \/ getStatistics
  \/ exportEntries
  \/ Deliver

Spec == Init /\ [][Next]_vars

(***************************************************************************)
(* Specification of the facet handlers over a collection as it is found in *)
(* the database: documents written by tools other than the schema (import  *)
(* and clean-up scripts) keep their values as written, untrimmed or blank. *)
(***************************************************************************)

\* documents as found: 'ab', 'ab ' (trailing blank), 'Ab', a blank epitope
FoundDocs ==
  { Doc(<<97, 98>>, <<99>>, <<99>>, Undefined, Undefined),
    Doc(<<97, 98, 32>>, <<99>>, <<99>>, <<32>>, Undefined),
    Doc(<<65, 98>>, <<99, 99>>, <<99>>, <<99>>, Undefined),
    Doc(<<99>>, <<99>>, <<99>>, <<99, 32>>, <<77, 117, 108, 116, 105, 112, 108, 101>>) }

FoundCollections == UNION {[1..n -> FoundDocs] : n \in 0..MaxStore}

InitFacet == store \in FoundCollections /\ req = NoRequest /\ res = NoResponse

NextFacet ==
  \/ getFilteredUniqueValues
  \/ getUniqueValues
  \/ Deliver

SpecFacet == InitFacet /\ [][NextFacet]_vars

(***************************************************************************)
(* Specification of the sanitizing step, a pure function of the value: the *)
(* initial state draws a value and a field text, the one step escapes the  *)
(* value, once and twice, and tests the compiled pattern on the text.      *)
(***************************************************************************)

\* the longest drawn value
MaxLen == 2

\* the characters of the drawn values: a A . ( * \
EscapeAlphabet == {97, 65, 46, 40, 42, 92}

\* the drawn values, and 'C1q (complement)'
EscapeValues ==
  UNION {[1..n -> EscapeAlphabet] : n \in 0..MaxLen}
  \cup {<<67, 49, 113, 32, 40, 99, 111, 109, 112, 108, 101, 109, 101, 110, 116, 41>>}

\* field texts: 'C1q (complement)', 'c1q complement', 'ab', 'A.', 'a(*', '\a', ''
EscapeTexts ==
  { <<67, 49, 113, 32, 40, 99, 111, 109, 112, 108, 101, 109, 101, 110, 116, 41>>,
    <<99, 49, 113, 32, 99, 111, 109, 112, 108, 101, 109, 101, 110, 116>>,
    <<97, 98>>, <<65, 46>>, <<97, 40, 42>>, <<92, 97>>, <<>> }

InitEscape ==
  /\ store = <<>>
  /\ req \in [op : {"escape"}, value : EscapeValues, text : EscapeTexts]
  /\ res = NoResponse

Sanitize ==
  /\ req.op = "escape"
  /\ res = NoResponse
  /\ res' = [op |-> "escape",
             source |-> EscapeRegex(req.value),
             twice |-> EscapeRegex(EscapeRegex(req.value)),
             test |-> RegexTest(RegExp(EscapeRegex(req.value)), req.text)]
  /\ UNCHANGED <<store, req>>

NextEscape == Sanitize

SpecEscape == InitEscape /\ [][NextEscape]_vars

(***************************************************************************)
(* Specification of the CSV conversion, a pure function of the entries:    *)
(* the initial state draws the entries, the one step converts them.        *)
(***************************************************************************)

\* an exported entry; autoantibody and autoantigen are 'c'
CSVEntry(disease, epitope, uniprotId, createdAt, dateAdded, verified) ==
  [disease |-> disease, autoantibody |-> <<99>>, autoantigen |-> <<99>>,
   epitope |-> epitope, uniprotId |-> uniprotId, createdAt |-> createdAt,
   metadata |-> [dateAdded |-> dateAdded, lastUpdated |-> dateAdded,
                 verified |-> verified]]

\* two instants either side of midnight
Instants ==
  { <<50, 48, 50, 52, 45, 48, 49, 45, 48, 49, 84, 50, 51, 58, 53, 57, 58, 53, 57, 46, 57, 57, 57, 90>>,
    <<50, 48, 50, 52, 45, 48, 49, 45, 48, 50, 84, 48, 48, 58, 48, 48, 58, 48, 48, 46, 48, 48, 49, 90>> }

\* entries with the values 'a', 'a,b', 'a"b', 'a' newline 'b'; createdAt is
\* set by the timestamps plugin at save, metadata.dateAdded by the handler
\* before it, or createdAt comes with the request body
CSVEntries ==
  {CSVEntry(d, Undefined, Undefined, c, a, FALSE) :
     d \in {<<97>>, <<97, 44, 98>>}, c \in Instants, a \in Instants}
  \cup {CSVEntry(<<97, 34, 98>>, <<97, 10, 98>>, Multiple, c, c, TRUE) : c \in Instants}
  \cup {CSVEntry(<<97>>, <<34>>, <<>>, c, c, TRUE) : c \in Instants}

\* the largest number of entries converted
MaxRows == 2

InitCSV ==
  /\ store = <<>>
  /\ req \in {[op |-> "convertToCSV", entries |-> e] :
               e \in UNION {[1..n -> CSVEntries] : n \in 0..MaxRows}}
  /\ res = NoResponse

ConvertCSV ==
  /\ req.op = "convertToCSV"
  /\ res = NoResponse
  /\ res' = [op |-> "convertToCSV", csv |-> convertToCSV(req.entries)]
  /\ UNCHANGED <<store, req>>

NextCSV == ConvertCSV

SpecCSV == InitCSV /\ [][NextCSV]_vars

(***************************************************************************)
(* User management: deleteUser and toggleUserStatus.  Here store is the    *)
(* users collection, one record per user id with present (the document     *)
(* exists) and isActive; req holds the requests in flight, one per slot;   *)
(* res is the log of the responses sent.  Id 0 stands for a malformed id.  *)
(***************************************************************************)

\* the number of users, of requests in flight, and of requests in a run
MaxUsers == 1
MaxInflight == 2
MaxRequests == 3

\* superAdmin, Admin, and Doctor for the roles without administration rights
Roles == {"superAdmin", "Admin", "Doctor"}

\* the permanent parameter of a delete request: absent, 'true', 'false'
PermanentValues == {"undefined", "true", "false"}

\* authorizeRoles(...roles): the request passes when the role of its user is
\* one of the roles
authorizeRoles(roles, role) == role \in roles

\* DeleteRoles letting Admin delete permanently too
DeleteRoles_AdminToo(permanent) == {"Admin", "superAdmin"}

\* the roles the delete route asks for
DeleteRoles(permanent) ==
  IF permanent = "true" THEN {"superAdmin"} ELSE {"Admin", "superAdmin"}

\* the number of requests received so far
Received == Len(res) + Cardinality({s \in 1..MaxInflight : req[s] # NoRequest})

InitUsers ==
  /\ store = [id \in 1..MaxUsers |-> [present |-> TRUE, isActive |-> TRUE]]
  /\ req = [s \in 1..MaxInflight |-> NoRequest]
  /\ res = <<>>

\* the route and the handler of DELETE /:id; the handler issues one storage
\* operation, findByIdAndDelete or findByIdAndUpdate
deleteUser ==
  /\ Received < MaxRequests
  /\ \E role \in Roles, id \in 0..MaxUsers, permanent \in PermanentValues :
       LET Respond(status) == Append(res, [op |-> "deleteUser", role |-> role, id |-> id,
                                           permanent |-> permanent, status |-> status])
       IN  IF ~authorizeRoles(DeleteRoles(permanent), role)
           THEN res' = Respond(403) /\ UNCHANGED store
           ELSE IF id = 0
           THEN res' = Respond(400) /\ UNCHANGED store
           ELSE IF ~store[id].present
           THEN res' = Respond(404) /\ UNCHANGED store
           ELSE IF permanent = "true"
           THEN /\ store' = [store EXCEPT ![id].present = FALSE]
                /\ res' = Respond(200)
           ELSE /\ store' = [store EXCEPT ![id].isActive = FALSE]
                /\ res' = Respond(200)
  /\ UNCHANGED req

\* toggleUserStatus up to the answer of findById: the route's role check, the
\* id check, the read of the user
toggleUserStatusFind(s) ==
  /\ req[s] = NoRequest
  /\ Received < MaxRequests
  /\ \E role \in Roles, id \in 0..MaxUsers :
       LET Respond(status) == Append(res, [op |-> "toggleUserStatus", role |-> role,
                                           id |-> id, status |-> status])
       IN  IF ~authorizeRoles({"Admin", "superAdmin"}, role)
           THEN res' = Respond(403) /\ UNCHANGED req
           ELSE IF id = 0
           THEN res' = Respond(400) /\ UNCHANGED req
           ELSE IF ~store[id].present
           THEN res' = Respond(404) /\ UNCHANGED req
           ELSE /\ req' = [req EXCEPT ![s] = [op |-> "toggleUserStatus", role |-> role,
                                              id |-> id, user |-> store[id]]]
                /\ UNCHANGED res
  /\ UNCHANGED store

\* toggleUserStatus from user.isActive = !user.isActive on: save writes the
\* negation of the value read; saving a document that is gone fails
toggleUserStatusSave(s) ==
  /\ req[s] # NoRequest
  /\ LET id == req[s].id
         isActive == ~req[s].user.isActive
         Respond(status) == Append(res, [op |-> "toggleUserStatus", role |-> req[s].role,
                                         id |-> id, status |-> status])
     IN  IF ~store[id].present
         THEN res' = Respond(500) /\ UNCHANGED store
         ELSE /\ store' = [store EXCEPT ![id].isActive = isActive]
              /\ res' = Respond(200)
  /\ req' = [req EXCEPT ![s] = NoRequest]

NextToggle ==
  \E s \in 1..MaxInflight :
    \/ toggleUserStatusFind(s)
    \/ toggleUserStatusSave(s)

SpecToggle == InitUsers /\ [][NextToggle]_vars

NextUsers ==
  \/ deleteUser
  \/ \E s \in 1..MaxInflight : toggleUserStatusFind(s)
  \/ \E s \in 1..MaxInflight : toggleUserStatusSave(s)

SpecUsers == InitUsers /\ [][NextUsers]_vars

(***************************************************************************)
(* Specification of the reads of getAllEntries and advancedSearch taken    *)
(* one storage operation at a time.  getAllEntries starts find and         *)
(* countDocuments together and waits for both, so that the collection      *)
(* answers them in either order; advancedSearch awaits the ranking         *)
(* aggregate and only then starts the statistics aggregate.  Writes of     *)
(* other requests reach the collection between these operations.  req is   *)
(* the read in flight with what it has been answered so far; readFrom      *)
(* keeps the collection the page was read from.                            *)
(***************************************************************************)

\* bodies of the writes of other requests
InterleaveBodies ==
  { Doc(<<97, 98>>, <<99>>, <<99>>, Undefined, Undefined),
    Doc(<<99>>, <<65, 98>>, <<99>>, <<99>>, Undefined) }

\* batches of the bulk imports of other requests
InterleaveBatches == UNION {[1..n -> InterleaveBodies] : n \in 1..MaxBatch}

\* requests of getAllEntries: disease absent or 'c', page absent or '2', limit absent or '1'
InterleaveQueries ==
  [search : {Undefined}, field : {"undefined"}, disease : {Undefined, <<99>>},
   autoantibody : {Undefined}, autoantigen : {Undefined}, epitope : {Undefined},
   page : {Undefined, <<50>>}, limit : {Undefined, <<49>>},
   sortBy : {"undefined"}, sortOrder : {"undefined"}]

\* requests of advancedSearch: q 'a' or 'ab', limit absent or '1'
InterleaveSearches ==
  [q : {<<97>>, <<97, 98>>}, limit : {Undefined, <<49>>},
   includeStats : {"undefined", "true"}]

\* the save of a createEntry request handled meanwhile
createEntryWrite ==
  /\ \E body \in InterleaveBodies :
       /\ Truthy(body.disease) /\ Truthy(body.autoantibody) /\ Truthy(body.autoantigen)
       /\ SchemaValid(CastDoc(body))
       /\ Len(store) < MaxStore
       /\ store' = Append(store, CastDoc(body))
  /\ UNCHANGED <<req, res>>

\* the findByIdAndDelete of a deleteEntry request handled meanwhile
deleteEntryWrite ==
  /\ \E id \in 1..Len(store) :
       store' = SubSeq(store, 1, id - 1) \o SubSeq(store, id + 1, Len(store))
  /\ UNCHANGED <<req, res>>

\* the insertMany of a bulkImport request handled meanwhile
bulkImportWrite ==
  /\ \E entries \in InterleaveBatches :
       /\ Len(entries) <= MaxBulk
       /\ validateBulkEntries(entries) = <<>>
       /\ Len(store) + Len(entries) <= MaxStore
       /\ store' = store \o InsertMany(entries)
  /\ UNCHANGED <<req, res>>

\* getAllEntries up to Promise.all: both reads are started, none is answered
getAllEntriesStart ==
  /\ req = NoRequest
  /\ res = NoResponse
  /\ \E query \in InterleaveQueries :
       req' = [op |-> "getAllEntries", query |-> query, found |-> FALSE,
               entries |-> <<>>, readFrom |-> <<>>, counted |-> FALSE, total |-> 0]
  /\ UNCHANGED <<store, res>>

\* the collection answers find
getAllEntriesFind ==
  /\ req.op = "getAllEntries"
  /\ ~req.found
  /\ \E p \in Perms(Len(store)) :
       req' = [req EXCEPT !.found = TRUE,
                          !.entries = ListEntries(req.query, Permuted(store, p)),
                          !.readFrom = store]
  /\ UNCHANGED <<store, res>>

\* the collection answers countDocuments
getAllEntriesCount ==
  /\ req.op = "getAllEntries"
  /\ ~req.counted
  /\ req' = [req EXCEPT !.counted = TRUE, !.total = ListTotal(req.query, store)]
  /\ UNCHANGED <<store, res>>

\* both reads are answered: the response is built
getAllEntriesRespond ==
  /\ req.op = "getAllEntries"
  /\ req.found
  /\ req.counted
  /\ res = NoResponse
  /\ res' = ListResponse(req.query, req.entries, req.total)
  /\ UNCHANGED <<store, req>>

\* advancedSearch up to the answer of the ranking aggregate
advancedSearchResults ==
  /\ req = NoRequest
  /\ res = NoResponse
  /\ \E query \in InterleaveSearches, p \in Perms(Len(store)) :
       IF \/ TermTooShort(query.q)
          \/ ~LimitStageOk(AdvancedLimit(query.limit))
          \/ query.includeStats # "true"
       THEN /\ req' = [op |-> "advancedSearch", query |-> query, results |-> <<>>]
            /\ res' = AdvancedSearchResponse(query, p)
       ELSE /\ req' = [op |-> "advancedSearch", query |-> query,
                       results |-> RankingPipeline(Permuted(store, p),
                                                   TrimmedRegex(query.q),
                                                   AdvancedLimit(query.limit))]
            /\ res' = NoResponse
  /\ UNCHANGED store

\* the statistics aggregate is answered and the response is built
advancedSearchStats ==
  /\ req.op = "advancedSearch"
  /\ res = NoResponse
  /\ \E p \in Perms(Len(store)) :
       res' = [op |-> "advancedSearch", status |-> 200,
               data |-> req.results, count |-> Len(req.results),
               searchTerm |-> Trim(req.query.q),
               stats |-> StatsPipeline(Permuted(store, p), TrimmedRegex(req.query.q))]
  /\ UNCHANGED <<store, req>>

\* the response leaves; the next read may start
DeliverRead ==
  /\ res # NoResponse
  /\ req' = NoRequest
  /\ res' = NoResponse
  /\ UNCHANGED store

NextInterleave ==
  \/ createEntryWrite
  \/ deleteEntryWrite
  \/ bulkImportWrite
  \/ getAllEntriesStart
  \/ getAllEntriesFind
  \/ getAllEntriesCount
  \/ getAllEntriesRespond
  \/ advancedSearchResults
  \/ advancedSearchStats
  \/ DeliverRead

SpecInterleave == Init /\ [][NextInterleave]_vars

(***************************************************************************)
(* Specification of the handlers that write, from the empty collection     *)
(***************************************************************************)

NextWrite ==
  \/ createEntry
  \/ updateEntry
  \/ deleteEntry
  \/ bulkImport
  \/ Deliver

SpecWrite == Init /\ [][NextWrite]_vars

(***************************************************************************)
(* Vocabulary of the properties, independent of the code above             *)
(***************************************************************************)

\* a value that is given and is not empty or whitespace-only
NonBlank(v) == v # Undefined /\ \E i \in 1..Len(v) : v[i] \notin WhiteSpace

\* needle occurs in hay, ignoring case; an absent field contains nothing
ContainsCI(hay, needle) ==
  /\ hay # Undefined
  /\ \E i \in 0..(Len(hay) - Len(needle)) :
       \A j \in 1..Len(needle) : Lower(hay[i + j]) = Lower(needle[j])

StructuredFields == <<"disease", "autoantibody", "autoantigen", "epitope">>

AllSearchFields == <<"disease", "autoantibody", "autoantigen", "epitope", "uniprotId">>

\* the case-insensitive "contains" clause on one field
ContainsClause(f, v) == (f :> [source |-> EscapeRegex(Trim(v)), flags |-> "i"])

\* the free-text clause of a filter set, as a list of zero or one clause
FreeTextClause(p) ==
  IF ~NonBlank(p.search) THEN <<>>
  ELSE IF p.field = "all"
       THEN << ("$or" :> [i \in 1..5 |-> ContainsClause(AllSearchFields[i], p.search)]) >>
  ELSE IF p.field \in SearchableFields THEN << ContainsClause(p.field, p.search) >>
  ELSE <<>>

\* the clauses of the structured filters from position i on
RECURSIVE StructuredClauses(_, _)
StructuredClauses(p, i) ==
  IF i > Len(StructuredFields) THEN <<>>
  ELSE (IF NonBlank(p[StructuredFields[i]])
        THEN << ContainsClause(StructuredFields[i], p[StructuredFields[i]]) >>
        ELSE <<>>) \o StructuredClauses(p, i + 1)

\* the active clauses of a filter set
ActiveClauses(p) == FreeTextClause(p) \o StructuredClauses(p, 1)

Built == res.op = "buildCombinedQuery"

(***************************************************************************)
(* C1: with two or more active clauses the built query is the conjunction  *)
(* ($and) whose operands are exactly the active clauses; with field 'all'  *)
(* the five-field disjunction is one operand of the conjunction.           *)
(***************************************************************************)
C1_ConjunctionOfClauses ==
  Built =>
    LET p == req.searchParams
        q == res.query
    IN  Len(ActiveClauses(p)) >= 2 =>
          /\ DOMAIN q = {"$and"}
          /\ q["$and"] = ActiveClauses(p)
          /\ (NonBlank(p.search) /\ p.field = "all") =>
               /\ DOMAIN q["$and"][1] = {"$or"}
               /\ Len(q["$and"][1]["$or"]) = 5
               /\ \A i \in 2..Len(q["$and"]) : "$or" \notin DOMAIN q["$and"][i]

\* a conjunction of the five-field disjunction with two structured filters
C1_Witness ==
  /\ Built
  /\ req.searchParams.field = "all"
  /\ NonBlank(req.searchParams.search)
  /\ DOMAIN res.query = {"$and"}
  /\ Len(res.query["$and"]) = 3

(***************************************************************************)
(* C2: with no active clause the built query is the match-all query {};    *)
(* with exactly one active clause it is that clause, without a $and.       *)
(***************************************************************************)
C2_MinimalPredicate ==
  Built =>
    LET p == req.searchParams
        q == res.query
    IN  /\ Len(ActiveClauses(p)) = 0 => (q = EmptyObject /\ DOMAIN q = {})
        /\ Len(ActiveClauses(p)) = 1 =>
             (q = ActiveClauses(p)[1] /\ "$and" \notin DOMAIN q)

\* a single structured filter, returned as the clause itself
C2_Witness ==
  /\ Built
  /\ Len(ActiveClauses(req.searchParams)) = 1
  /\ DOMAIN res.query = {"autoantigen"}

(***************************************************************************)
(* C3: the built predicate matches a document only if every non-blank      *)
(* structured filter is contained, ignoring case, in that field of the     *)
(* document and, when search is non-blank, the search term is contained in *)
(* one of the five fields (field 'all') or in the named field.             *)
(* The code compares the values after trimming them, so the statement      *)
(* holds of the trimmed values (C3_MatchImpliesContainsTrimmed) and fails  *)
(* of the values as supplied (C3_MatchImpliesContainsRaw).                 *)
(***************************************************************************)
MatchImpliesContains(p, q, doc, N(_)) ==
  Matches(q, doc) =>
    /\ \A i \in 1..Len(StructuredFields) :
         LET f == StructuredFields[i]
         IN  NonBlank(p[f]) => ContainsCI(doc[f], N(p[f]))
    /\ (NonBlank(p.search) /\ p.field = "all") =>
         \E i \in 1..Len(AllSearchFields) : ContainsCI(doc[AllSearchFields[i]], N(p.search))
    /\ (NonBlank(p.search) /\ p.field \in SearchableFields) =>
         ContainsCI(doc[p.field], N(p.search))

AsSupplied(v) == v

C3_MatchImpliesContainsRaw ==
  Built => \A doc \in QueryDocs :
             MatchImpliesContains(req.searchParams, res.query, doc, AsSupplied)

C3_MatchImpliesContainsTrimmed ==
  Built => \A doc \in QueryDocs :
             MatchImpliesContains(req.searchParams, res.query, doc, Trim)

\* a filter given with surrounding blanks and a search on a named field,
\* matching a document
C3_Witness ==
  /\ Built
  /\ req.searchParams.disease = <<32, 66, 32>>
  /\ NonBlank(req.searchParams.search)
  /\ req.searchParams.field = "uniprotId"
  /\ \E doc \in QueryDocs : Matches(res.query, doc)

(***************************************************************************)
(* Vocabulary of the properties of the handlers                            *)
(***************************************************************************)

Searched == res.op = "advancedSearch" /\ res.status = 200

Faceted == res.op = "getFilteredUniqueValues" /\ res.status = 200

Exported == res.op = "exportEntries" /\ res.status = 200

\* the storage scanning the collection in insertion order
InsertionOrder == [i \in 1..Len(store) |-> i]

\* the term occurs in one of the five fields of the document, ignoring case
MatchesTerm(doc, term) ==
  \E i \in 1..Len(AllSearchFields) : ContainsCI(doc[AllSearchFields[i]], term)

\* +10 disease, +8 autoantibody, +6 autoantigen, +4 epitope, +2 uniprotId
WeightedSum(doc, term) ==
    (IF ContainsCI(doc.disease, term) THEN 10 ELSE 0)
  + (IF ContainsCI(doc.autoantibody, term) THEN 8 ELSE 0)
  + (IF ContainsCI(doc.autoantigen, term) THEN 6 ELSE 0)
  + (IF ContainsCI(doc.epitope, term) THEN 4 ELSE 0)
  + (IF ContainsCI(doc.uniprotId, term) THEN 2 ELSE 0)

\* a is lexicographically before b
LexLess(a, b) ==
  \E k \in 1..Len(b) :
    /\ k - 1 <= Len(a)
    /\ \A m \in 1..(k - 1) : a[m] = b[m]
    /\ (k = Len(a) + 1 \/ (k <= Len(a) /\ a[k] < b[k]))

\* the positions of the stored documents matching the term
MatchingPositions(term) == {i \in 1..Len(store) : MatchesTerm(store[i], term)}

\* a value that is blank counts as not given
Unblank(v) == IF NonBlank(v) THEN v ELSE Undefined

(***************************************************************************)
(* C4: an empty or whitespace-only filter value is treated as no filter:   *)
(* getFilteredUniqueValues and exportEntries answer a request with blank   *)
(* constraints as they answer the request without those constraints; an    *)
(* epitope facet request whose constraints are all blank gets no values.   *)
(* The code tests the value for truthiness only and (facets) trims it      *)
(* afterwards, so ' ' becomes the pattern '' that matches every record.    *)
(***************************************************************************)
C4_BlankIsNoFilter ==
  /\ Faceted =>
       Range(res.data) =
         Range(FilteredUniqueValuesResponse(req.params,
                 [disease |-> Unblank(req.query.disease),
                  autoantibody |-> Unblank(req.query.autoantibody),
                  autoantigen |-> Unblank(req.query.autoantigen)], InsertionOrder).data)
  /\ (Exported /\ req.query.limit = Undefined) =>
       Range(res.data) =
         Range(ExportResponse([disease |-> Unblank(req.query.disease),
                               autoantibody |-> Unblank(req.query.autoantibody),
                               autoantigen |-> Unblank(req.query.autoantigen),
                               limit |-> Undefined], InsertionOrder).data)

(***************************************************************************)
(* C5: every record advancedSearch returns carries a relevanceScore equal  *)
(* to the weighted sum of the fields that contain the term (the trimmed q, *)
(* reported as searchTerm), ignoring case: 10 disease, 8 autoantibody,     *)
(* 6 autoantigen, 4 epitope, 2 uniprotId, an absent field containing       *)
(* nothing; the score is within 2..30 and the record matches in a field.   *)
(***************************************************************************)
C5_ExactWeightedSum ==
  Searched =>
    \A i \in 1..Len(res.data) :
      LET d == res.data[i]
      IN  /\ d.relevanceScore = WeightedSum(d, res.searchTerm)
          /\ d.relevanceScore \in 2..30
          /\ MatchesTerm(d, res.searchTerm)
          /\ \E k \in 1..Len(store) : WithScore(store[k], d.relevanceScore) = d

\* a record matching in all five fields and a record matching in autoantigen
\* and uniprotId only are returned for a term given with surrounding blanks
C5_Witness ==
  /\ Searched
  /\ req.query.q = <<32, 65, 66, 32>>
  /\ Len(res.data) = 2
  /\ res.data[1].relevanceScore = 30
  /\ res.data[2].relevanceScore = 8
  /\ res.data[2].epitope = Undefined

(***************************************************************************)
(* C6: the sequence advancedSearch returns is sorted by relevanceScore     *)
(* descending and, among equal scores, by disease ascending.               *)
(***************************************************************************)
C6_SortedByScoreThenDisease ==
  Searched =>
    \A i, j \in 1..Len(res.data) :
      i < j =>
        \/ res.data[i].relevanceScore > res.data[j].relevanceScore
        \/ /\ res.data[i].relevanceScore = res.data[j].relevanceScore
           /\ \/ res.data[i].disease = res.data[j].disease
              \/ LexLess(res.data[i].disease, res.data[j].disease)

\* a record matching in disease only (10) precedes one matching in
\* autoantibody only (8), the latter having been stored first
C6_Witness ==
  /\ Searched
  /\ Len(res.data) = 2
  /\ res.data[1].relevanceScore = 10
  /\ res.data[2].relevanceScore = 8
  /\ Len(store) = 2
  /\ store[1].disease = res.data[2].disease
  /\ store[1].autoantibody = res.data[2].autoantibody

(***************************************************************************)
(* C7: the ranked result does not depend on the order in which the storage *)
(* holds the records: every storage order yields the returned sequence.    *)
(* The pipeline sorts on relevanceScore and disease only, so records equal *)
(* in both come out in storage order.                                      *)
(***************************************************************************)
C7_StorageOrderIndependent ==
  Searched =>
    \A p \in Perms(Len(store)) : AdvancedSearchResponse(req.query, p).data = res.data

(***************************************************************************)
(* C8: for every limit parameter advancedSearch ranks with an effective    *)
(* limit within 1..100 (50 when absent) and returns at most that many      *)
(* records.  The code only bounds the limit from above: 0, a negative      *)
(* number or a non-number reach the $limit stage and the request fails.    *)
(***************************************************************************)
C8_LimitClamped ==
  (res.op = "advancedSearch" /\ res.status # 400) =>
    LET l == AdvancedLimit(req.query.limit)
    IN  /\ ~l.nan
        /\ l.n \in 1..100
        /\ req.query.limit = Undefined => l.n = 50
        /\ res.status = 200
        /\ res.count <= l.n

EarlierFields(field) ==
  IF field = "autoantibody" THEN {"disease"}
  ELSE IF field = "autoantigen" THEN {"disease", "autoantibody"}
  ELSE IF field = "epitope" THEN {"disease", "autoantibody", "autoantigen"}
  ELSE {}

C10_FacetDependsOnEarlierFields ==
  Faceted =>
    \A alt \in FacetQueries :
      (\A f \in EarlierFields(req.params.field) : alt[f] = req.query[f]) =>
        Range(FilteredUniqueValuesResponse(req.params, alt, InsertionOrder).data)
          = Range(res.data)

\* an autoantibody request with a disease and an autoantigen constraint, a
\* stored record satisfying the former and not the latter
C10_Witness ==
  /\ Faceted
  /\ req.params.field = "autoantibody"
  /\ req.query.disease = <<67>>
  /\ req.query.autoantigen = <<67>>
  /\ res.data # <<>>
  /\ \E k \in 1..Len(store) :
       /\ ContainsCI(store[k].disease, <<67>>)
       /\ ~ContainsCI(store[k].autoantigen, <<67>>)

(***************************************************************************)
(* C11: the values getFilteredUniqueValues returns are exactly the trimmed *)
(* non-blank values of the requested field in the records in which every   *)
(* constraint given for an earlier field is contained, ignoring case, in   *)
(* that field.  The code trims a constraint before comparing it and        *)
(* answers an epitope request that has no constraint with no values, so    *)
(* the statement holds with these two provisions (C11_ExactFacetValues)    *)
(* and fails as it stands (C11_ExactFacetValuesAsStated).                  *)
(***************************************************************************)
FacetValuesOf(field, q, Given(_), N(_)) ==
  {Trim(store[i][field]) :
     i \in {k \in 1..Len(store) :
              /\ NonBlank(store[k][field])
              /\ \A f \in EarlierFields(field) :
                   Given(q[f]) => ContainsCI(store[k][f], N(q[f]))}}

C11_ExactFacetValuesAsStated ==
  Faceted =>
    Range(res.data) = FacetValuesOf(req.params.field, req.query, NonBlank, AsSupplied)

C11_ExactFacetValues ==
  Faceted =>
    IF /\ req.params.field = "epitope"
       /\ \A f \in EarlierFields("epitope") : ~Truthy(req.query[f])
    THEN res.data = <<>>
    ELSE Range(res.data) = FacetValuesOf(req.params.field, req.query, Truthy, Trim)

\* an autoantibody request with the disease constraint ' c': the values of a
\* record whose disease contains 'c' are returned, those of another are not
C11_Witness ==
  /\ Faceted
  /\ req.params.field = "autoantibody"
  /\ req.query.disease = <<32, 99>>
  /\ res.data # <<>>
  /\ \E k \in 1..Len(store) :
       /\ ~ContainsCI(store[k].disease, <<99>>)
       /\ store[k].autoantibody \notin Range(res.data)

(***************************************************************************)
(* C12: the list getFilteredUniqueValues and getUniqueValues return has no *)
(* blank value, no value twice and is sorted ignoring case, also when two  *)
(* stored values differ in surrounding whitespace only.  The code removes  *)
(* duplicates (distinct) before it trims, so two such values both appear.  *)
(***************************************************************************)
Listed ==
  /\ res.op \in {"getFilteredUniqueValues", "getUniqueValues"}
  /\ res.status = 200

C12_NoBlankNoDuplicateSorted ==
  Listed =>
    /\ \A i \in 1..Len(res.data) : NonBlank(res.data[i])
    /\ \A i, j \in 1..Len(res.data) : i < j => res.data[i] # res.data[j]
    /\ \A i, j \in 1..Len(res.data) :
         i < j => ~LexLess(LowerStr(res.data[j]), LowerStr(res.data[i]))

(***************************************************************************)
(* C13: an epitope request of getFilteredUniqueValues with none of         *)
(* disease, autoantibody, autoantigen given is answered with the empty     *)
(* list before the storage is asked; epitope values are returned only      *)
(* when one of the three is given.                                         *)
(***************************************************************************)
C13_EpitopeNeedsConstraint ==
  (Faceted /\ req.params.field = "epitope") =>
    /\ (\A f \in EarlierFields("epitope") : ~Truthy(req.query[f])) =>
         /\ res.data = <<>>
         /\ res.count = 0
         /\ "appliedFilters" \notin DOMAIN res
    /\ res.data # <<>> => \E f \in EarlierFields("epitope") : Truthy(req.query[f])

\* an epitope request without constraint while a record with an epitope is stored
C13_Witness ==
  /\ Faceted
  /\ req.params.field = "epitope"
  /\ \A f \in EarlierFields("epitope") : ~Truthy(req.query[f])
  /\ req.query.autoantibody = <<>>
  /\ \E k \in 1..Len(store) : NonBlank(store[k].epitope)
  /\ res.data = <<>>

(***************************************************************************)
(* C14: advancedSearch answers a request whose term is missing or, after   *)
(* trimming, shorter than 2 characters with a validation error, without    *)
(* any result of a storage query or aggregation in the response.           *)
(***************************************************************************)
C14_ShortTermRejected ==
  (req.op = "advancedSearch"
     /\ (req.query.q = Undefined \/ Len(Trim(req.query.q)) < 2)) =>
    /\ res.status = 400
    /\ DOMAIN res = {"op", "status", "message"}

\* the term ' a', two characters as supplied and one trimmed, is rejected
\* while a record containing 'a' is stored
C14_Witness ==
  /\ req.op = "advancedSearch"
  /\ req.query.q = <<32, 97>>
  /\ \E k \in 1..Len(store) : ContainsCI(store[k].disease, <<97>>)
  /\ res.status = 400

(***************************************************************************)
(* C15: a request naming a search field other than all, disease,           *)
(* autoantibody, autoantigen, epitope, uniprotId in searchEntries or       *)
(* getAllEntries, or a facet field that is not one in                      *)
(* getFilteredUniqueValues or getUniqueValues, is answered with a          *)
(* validation error and never with a result set.                           *)
(***************************************************************************)
NamesInvalidField ==
  \/ /\ req.op \in {"searchEntries", "getAllEntries"}
     /\ req.query.field \notin Range(AllSearchFields) \cup {"all", "undefined"}
  \/ req.op = "getFilteredUniqueValues" /\ req.params.field \notin FacetFields
  \/ req.op = "getUniqueValues" /\ req.params.field \notin Range(AllSearchFields)

C15_InvalidFieldRejected ==
  NamesInvalidField => (res.status = 400 /\ "data" \notin DOMAIN res)

(***************************************************************************)
(* C16: for every page and limit parameter getAllEntries uses a page of at *)
(* least 1 and a limit within 1..100, 10 when the limit is absent or       *)
(* unparsable, so that the skip (page - 1) * limit is not negative; a      *)
(* sortBy outside the whitelist falls back to disease.                     *)
(***************************************************************************)
Whitelist ==
  {"disease", "autoantibody", "autoantigen", "epitope", "uniprotId", "createdAt", "updatedAt"}

C16_PagingClamped ==
  req.op = "getAllEntries" =>
    /\ res.status = 200
    /\ res.pagination.page = PageOf(req.query.page)
    /\ res.pagination.page >= 1
    /\ res.pagination.limit = LimitOf(req.query.limit)
    /\ res.pagination.limit \in 1..100
    /\ (req.query.limit = Undefined \/ ParseInt(req.query.limit).nan) =>
         res.pagination.limit = 10
    /\ SkipOf(req.query.page, req.query.limit)
         = (res.pagination.page - 1) * res.pagination.limit
    /\ SkipOf(req.query.page, req.query.limit) >= 0
    /\ Len(res.data) <= res.pagination.limit
    /\ req.query.sortBy \notin Whitelist =>
         /\ res.appliedFilters.sortBy = "disease"
         /\ \A i, j \in 1..Len(res.data) :
              i < j => IF req.query.sortOrder = "desc"
                       THEN ~LexLess(res.data[i].disease, res.data[j].disease)
                       ELSE ~LexLess(res.data[j].disease, res.data[i].disease)
    /\ req.query.sortBy \in Whitelist => res.appliedFilters.sortBy = req.query.sortBy

\* page '-1' and limit '101' with an unlisted sortBy on a stored record
C16_Witness ==
  /\ req.op = "getAllEntries"
  /\ req.query.page = <<45, 49>>
  /\ req.query.limit = <<49, 48, 49>>
  /\ req.query.sortBy = "bogus"
  /\ res.pagination.page = 1
  /\ res.pagination.limit = 100
  /\ Len(res.data) = 2

(***************************************************************************)
(* C17: a successful getAllEntries response has the total count, the page, *)
(* the number of pages ceil(total / limit), and flags for a next page      *)
(* (page < pages) and a previous page (page > 1).  The response of the     *)
(* code has total, page, limit and pages and no such flags.                *)
(***************************************************************************)
Listing == res.op = "getAllEntries" /\ res.status = 200

\* pages is the least number of pages of limit entries that hold total entries
PagesExact ==
  /\ res.pagination.total = Cardinality({k \in 1..Len(store) :
                                Matches(buildCombinedQuery([search |-> req.query.search,
                                               field |-> req.query.field,
                                               disease |-> req.query.disease,
                                               autoantibody |-> req.query.autoantibody,
                                               autoantigen |-> req.query.autoantigen,
                                               epitope |-> req.query.epitope]), store[k])})
  /\ res.pagination.pages * res.pagination.limit >= res.pagination.total
  /\ res.pagination.pages >= 0
  /\ res.pagination.pages > 0 =>
       (res.pagination.pages - 1) * res.pagination.limit < res.pagination.total

C17_PaginationWithFlags ==
  Listing =>
    /\ PagesExact
    /\ \E next, prev \in DOMAIN res.pagination \ {"page", "limit", "total", "pages"} :
         /\ next # prev
         /\ res.pagination[next] = (res.pagination.page < res.pagination.pages)
         /\ res.pagination[prev] = (res.pagination.page > 1)

C17_PaginationWithoutFlags ==
  Listing =>
    /\ PagesExact
    /\ DOMAIN res.pagination = {"page", "limit", "total", "pages"}

\* two stored records listed with limit '1': two pages
C17_Witness ==
  /\ Listing
  /\ req.query.limit = <<49>>
  /\ res.pagination.total = 2
  /\ res.pagination.pages = 2

(***************************************************************************)
(* C18: bulkImport allows partial success: when some entries of a batch    *)
(* are invalid, the remaining valid entries are inserted and the inserted  *)
(* and failed counts are reported; one bad entry does not keep the valid   *)
(* entries of the batch from being stored.  The code rejects the whole     *)
(* batch when validateBulkEntries finds an error in any entry.             *)
(***************************************************************************)
\* an entry with non-blank required fields and a well-formed uniprotId
EntryAcceptable(e) ==
  /\ NonBlank(e.disease) /\ NonBlank(e.autoantibody) /\ NonBlank(e.autoantigen)
  /\ \/ e.uniprotId \in {Undefined, <<>>, <<77, 117, 108, 116, 105, 112, 108, 101>>}
     \/ /\ Len(e.uniprotId) = 6
        /\ \A i \in 1..6 : e.uniprotId[i] \in (65..90) \cup (IF i = 1 THEN {} ELSE 48..57)

C18_PartialSuccess ==
  (req.op = "bulkImport"
     /\ \E i \in 1..Len(req.body.entries) : EntryAcceptable(req.body.entries[i])) =>
    LET entries == req.body.entries
        valid == {i \in 1..Len(entries) : EntryAcceptable(entries[i])}
    IN  /\ res.status \in {200, 207}
        /\ res.data.inserted = Cardinality(valid)
        /\ res.data.failed = Len(entries) - Cardinality(valid)
        /\ \A i \in valid : \E k \in 1..Len(store) : store[k].disease = Trim(entries[i].disease)

(***************************************************************************)
(* C19: after any sequence of createEntry, updateEntry, deleteEntry and    *)
(* bulkImport every stored record has a disease, an autoantibody and an    *)
(* autoantigen that are not empty after trimming, and a uniprotId that is  *)
(* absent, 'Multiple' or of the form ^[A-Z][0-9A-Z]{5}$.  The validators   *)
(* also let the empty string through as uniprotId (!v), so the statement   *)
(* holds with the empty uniprotId allowed (C19_StoredRecordsValid) and     *)
(* fails as it stands (C19_StoredRecordsValidAsStated).                    *)
(***************************************************************************)
RequiredPresent(doc) ==
  NonBlank(doc.disease) /\ NonBlank(doc.autoantibody) /\ NonBlank(doc.autoantigen)

WellFormedId(v) ==
  \/ v = <<77, 117, 108, 116, 105, 112, 108, 101>>
  \/ /\ Len(v) = 6
     /\ \A i \in 1..6 : v[i] \in (65..90) \cup (IF i = 1 THEN {} ELSE 48..57)

QueryOperations ==
  {"getAllEntries", "searchEntries", "advancedSearch", "getEntryById",
   "getEntriesByDisease", "getEntriesByUniprotId", "getUniqueValues",
   "getFilteredUniqueValues", "getStatistics", "exportEntries"}

C20_QueriesDoNotWrite == [][req'.op \in QueryOperations => store' = store]_vars

\* getStatistics has answered on a collection of two records
C20_Witness ==
  /\ req.op = "getStatistics"
  /\ res.status = 200
  /\ Len(store) = 2
  /\ res.data.overview.totalEntries = 2

(***************************************************************************)
(* C21: convertToCSV followed by parsing with the standard CSV rules       *)
(* gives the header row and exactly one row per record, with the five      *)
(* text values of the record, 'Date Added' the day of metadata.dateAdded   *)
(* and Verified Yes or No; a field is quoted, with its quotes doubled, if  *)
(* and only if it holds a comma, a quote or a newline.  The code returns   *)
(* the empty text, without header, for no record, and writes the day of    *)
(* createdAt under 'Date Added'.                                           *)
(***************************************************************************)
\* standard CSV parsing: a comma or a newline separates when it is outside
\* quotes, that is when an even number of quotes precede it
Separators(s, c) ==
  {i \in 1..Len(s) : s[i] = c /\ Cardinality({j \in 1..(i - 1) : s[j] = 34}) % 2 = 0}

\* the pieces of s between the positions of a set, in order
SplitAt(s, cuts) ==
  LET cut(k) == IF k = 0 THEN 0
                ELSE IF k > Cardinality(cuts) THEN Len(s) + 1
                ELSE CHOOSE c \in cuts : Cardinality({d \in cuts : d < c}) = k - 1
  IN  [k \in 1..(Cardinality(cuts) + 1) |-> SubSeq(s, cut(k - 1) + 1, cut(k) - 1)]

\* "" inside a quoted field is one quote
RECURSIVE Undouble(_)
Undouble(f) ==
  IF f = <<>> THEN <<>>
  ELSE IF Len(f) >= 2 /\ f[1] = 34 /\ f[2] = 34 THEN <<34>> \o Undouble(SubSeq(f, 3, Len(f)))
  ELSE <<Head(f)>> \o Undouble(Tail(f))

\* the value of a field: a quoted field without its quotes
Unquote(f) ==
  IF Len(f) >= 2 /\ f[1] = 34 /\ f[Len(f)] = 34 THEN Undouble(SubSeq(f, 2, Len(f) - 1))
  ELSE f

\* the rows of a CSV text with the fields as written; the empty text has no row
RawRows(s) ==
  IF s = <<>> THEN <<>>
  ELSE LET lines == SplitAt(s, Separators(s, 10))
       IN  [r \in 1..Len(lines) |-> SplitAt(lines[r], Separators(lines[r], 44))]

\* the rows of a CSV text
ParseCSV(s) ==
  [r \in 1..Len(RawRows(s)) |->
     [k \in 1..Len(RawRows(s)[r]) |-> Unquote(RawRows(s)[r][k])]]

Converted == res.op = "convertToCSV"

\* an absent value reads as the empty text
Shown(v) == IF v = Undefined THEN <<>> ELSE v

\* the first ten characters of an instant, YYYY-MM-DD
Day(instant) == SubSeq(instant, 1, 10)

HeaderRow ==
  <<<<68, 105, 115, 101, 97, 115, 101>>,
    <<65, 117, 116, 111, 97, 110, 116, 105, 98, 111, 100, 121>>,
    <<65, 117, 116, 111, 97, 110, 116, 105, 103, 101, 110>>,
    <<69, 112, 105, 116, 111, 112, 101>>,
    <<85, 110, 105, 80, 114, 111, 116, 32, 73, 68>>,
    <<68, 97, 116, 101, 32, 65, 100, 100, 101, 100>>,
    <<76, 97, 115, 116, 32, 85, 112, 100, 97, 116, 101, 100>>,
    <<86, 101, 114, 105, 102, 105, 101, 100>>>>

TextColumns == <<"disease", "autoantibody", "autoantigen", "epitope", "uniprotId">>

\* the parsed text has the header and one row per entry, each row with the
\* five text values, the day of the given instant under 'Date Added', and
\* Yes or No; a text field is written in quotes exactly when its value holds
\* a comma, a quote or a newline
RoundTrips(DateAdded(_)) ==
  LET entries == req.entries
      rows == ParseCSV(res.csv)
      raw == RawRows(res.csv)
  IN  /\ Len(rows) = Len(entries) + 1
      /\ rows[1] = HeaderRow
      /\ \A i \in 1..Len(entries) :
           /\ Len(rows[i + 1]) = 8
           /\ \A k \in 1..5 :
                /\ rows[i + 1][k] = Shown(entries[i][TextColumns[k]])
                /\ (raw[i + 1][k] # <<>> /\ raw[i + 1][k][1] = 34)
                     <=> \E c \in Range(rows[i + 1][k]) : c \in {44, 34, 10}
           /\ rows[i + 1][6] = Day(DateAdded(entries[i]))
           /\ rows[i + 1][8] = IF entries[i].metadata.verified
                               THEN <<89, 101, 115>> ELSE <<78, 111>>

C21_CSVRoundTripAsStated ==
  LET DateAdded(e) == e.metadata.dateAdded
  IN  Converted => RoundTrips(DateAdded)

C21_CSVRoundTrip ==
  LET DateAdded(e) == e.createdAt
  IN  Converted => IF req.entries = <<>> THEN res.csv = <<>> ELSE RoundTrips(DateAdded)

\* two entries converted, with a comma, a quote and a newline in their values
C21_Witness ==
  /\ Converted
  /\ Len(req.entries) = 2
  /\ req.entries[1].disease = <<97, 44, 98>>
  /\ req.entries[2].disease = <<97, 34, 98>>
  /\ req.entries[2].epitope = <<97, 10, 98>>
  /\ Len(ParseCSV(res.csv)) = 3

(***************************************************************************)
(* C22: the sanitizing step puts one backslash before each of the          *)
(* characters . * + ? ^ $ { } ( ) | [ ] \ and leaves every other character *)
(* as it is, so that the pattern matches a text exactly when the text      *)
(* contains the value literally, ignoring case; 'C1q (complement)' becomes *)
(* 'C1q \(complement\)'.  Applied twice to a value with such a character   *)
(* it adds a second layer of backslashes.                                  *)
(***************************************************************************)
Escaped == res.op = "escape"

\* . * + ? ^ $ { } ( ) | [ ] \
Special == {46, 42, 43, 63, 94, 36, 123, 125, 40, 41, 124, 91, 93, 92}

\* the number of special characters among the first n of v
SpecialUpTo(v, n) == Cardinality({j \in 1..n : v[j] \in Special})

\* out is v with one backslash before each special character
Backslashed(v, out) ==
  /\ Len(out) = Len(v) + SpecialUpTo(v, Len(v))
  /\ \A i \in 1..Len(v) :
       /\ out[i + SpecialUpTo(v, i)] = v[i]
       /\ v[i] \in Special => out[i + SpecialUpTo(v, i) - 1] = 92

C22_EscapeIsLiteral ==
  Escaped =>
    /\ Backslashed(req.value, res.source)
    /\ res.test <=> ContainsCI(req.text, req.value)
    /\ Backslashed(res.source, res.twice)
    /\ SpecialUpTo(req.value, Len(req.value)) > 0 =>
         /\ res.twice # res.source
         /\ Len(res.twice) = Len(req.value) + 3 * SpecialUpTo(req.value, Len(req.value))

\* 'C1q (complement)' becomes 'C1q \(complement\)' and matches the text
\* 'C1q (complement)'
C22_Witness ==
  /\ Escaped
  /\ req.value = <<67, 49, 113, 32, 40, 99, 111, 109, 112, 108, 101, 109, 101, 110, 116, 41>>
  /\ req.text = req.value
  /\ res.source = <<67, 49, 113, 32, 92, 40, 99, 111, 109, 112, 108, 101, 109, 101, 110,
                    116, 92, 41>>
  /\ res.test

(***************************************************************************)
(* C23: a user record is removed from storage only by a delete request     *)
(* with permanent=true of a superAdmin; a delete request without           *)
(* permanent=true, of an Admin or a superAdmin, removes no record and sets *)
(* isActive to false and nothing else; a delete request of another role    *)
(* changes nothing.                                                        *)
(***************************************************************************)
\* the response sent in the step, when the step sends one
Answered == Len(res') = Len(res) + 1

C23_PermanentDeleteBySuperAdminOnly ==
  [][LET r == res'[Len(res')]
     IN  /\ \A k \in 1..MaxUsers :
              (store[k].present /\ ~store'[k].present) =>
                /\ Answered
                /\ r.op = "deleteUser" /\ r.permanent = "true"
                /\ r.role = "superAdmin" /\ r.id = k
         /\ (Answered /\ r.op = "deleteUser" /\ r.permanent # "true") =>
              /\ \A k \in 1..MaxUsers : store'[k].present = store[k].present
              /\ \A k \in 1..MaxUsers : k # r.id => store'[k] = store[k]
              /\ (r.role \in {"Admin", "superAdmin"} /\ r.id # 0 /\ store[r.id].present) =>
                   /\ r.status = 200
                   /\ ~store'[r.id].isActive
         /\ (Answered /\ r.op = "deleteUser"
               /\ (r.role \notin {"Admin", "superAdmin"}
                     \/ (r.role = "Admin" /\ r.permanent = "true"))) =>
              store' = store]_vars

\* an Admin's permanent delete was refused, an Admin's delete without
\* permanent deactivated the user, a superAdmin's permanent delete removed it
C23_Witness ==
  /\ Len(res) = 3
  /\ res[1] = [op |-> "deleteUser", role |-> "Admin", id |-> 1, permanent |-> "true",
               status |-> 403]
  /\ res[2] = [op |-> "deleteUser", role |-> "Admin", id |-> 1, permanent |-> "false",
               status |-> 200]
  /\ res[3] = [op |-> "deleteUser", role |-> "superAdmin", id |-> 1, permanent |-> "true",
               status |-> 200]
  /\ ~store[1].present
  /\ ~store[1].isActive

(***************************************************************************)
(* C26: toggleUserStatus flips isActive once per completed request: after  *)
(* n successful toggle requests on a user, in any interleaving of their    *)
(* findById and save steps, isActive is the initial value when n is even   *)
(* and its negation when n is odd.  Two requests that both read before     *)
(* either saves write the same value, and one flip is lost.                *)
(***************************************************************************)
\* the number of toggle requests on a user answered with success
Toggled(id) ==
  Cardinality({i \in 1..Len(res) :
                 res[i].op = "toggleUserStatus" /\ res[i].id = id /\ res[i].status = 200})

\* no request is in flight
Quiescent == \A s \in 1..MaxInflight : req[s] = NoRequest

\* every user starts active
C26_ToggleParity ==
  Quiescent => \A id \in 1..MaxUsers : store[id].isActive = (Toggled(id) % 2 = 0)

(***************************************************************************)
(* C24: when search is not blank and field is absent or is none of all,    *)
(* disease, autoantibody, autoantigen, epitope, uniprotId, the built query *)
(* has no search clause: it is the query of the structured filters alone,  *)
(* and the match-all query {} when there are none.                         *)
(***************************************************************************)
NoSearchField ==
  /\ Built
  /\ NonBlank(req.searchParams.search)
  /\ req.searchParams.field \notin {"all"} \cup Range(AllSearchFields)

C24_NoFieldNoSearchClause ==
  NoSearchField =>
    LET p == req.searchParams
        clauses == StructuredClauses(p, 1)
    IN  /\ res.query = IF Len(clauses) = 0 THEN <<>>
                       ELSE IF Len(clauses) = 1 THEN clauses[1]
                       ELSE ("$and" :> clauses)
        /\ \A doc \in QueryDocs :
             Matches(res.query, doc)
               <=> \A i \in 1..Len(StructuredFields) :
                     NonBlank(p[StructuredFields[i]]) =>
                       ContainsCI(doc[StructuredFields[i]], Trim(p[StructuredFields[i]]))

\* search '.' without field and without structured filter builds {}, which
\* matches a document that does not contain '.'
C24_Witness ==
  /\ NoSearchField
  /\ req.searchParams.search = <<46>>
  /\ req.searchParams.field = "undefined"
  /\ \A i \in 1..Len(StructuredFields) : ~NonBlank(req.searchParams[StructuredFields[i]])
  /\ res.query = <<>>
  /\ \E doc \in QueryDocs :
       /\ Matches(res.query, doc)
       /\ \A i \in 1..Len(AllSearchFields) : ~ContainsCI(doc[AllSearchFields[i]], <<46>>)

(***************************************************************************)
(* C25.  Whatever writes of other requests fall between the storage reads  *)
(* of one request, a response of getAllEntries returns no more entries     *)
(* than pagination.total, and total is the number of records that match    *)
(* the filter in the collection the page was read from; a response of      *)
(* advancedSearch with statistics has a count of at most                   *)
(* stats.totalMatches.                                                     *)
(***************************************************************************)

\* a response of getAllEntries is present
ListAnswered == res.op = "getAllEntries" /\ res.status = 200

\* a response of advancedSearch with statistics is present
StatsAnswered == res.op = "advancedSearch" /\ res.status = 200 /\ res.stats # Null

C25_ReadsOfOneState ==
  /\ ListAnswered =>
       /\ Len(res.data) <= res.pagination.total
       /\ res.pagination.total = ListTotal(req.query, req.readFrom)
  /\ StatsAnswered => res.count <= res.stats.totalMatches

====
